---------------------------- MODULE Spec2Model ----------------------------
(***************************************************************************)
(* nx-scaffolder: the `create` command.                                    *)
(*                                                                         *)
(* The model has two parts.  The first is the instruction parser of        *)
(* cmd/create.go (parseInjectInstructions, extractRepoName) over strings   *)
(* represented as sequences of one-character strings, with Go's `int` kept *)
(* as a 64-bit two's complement number held in four 16-bit limbs.  The     *)
(* second is the orchestrator: runCreate, ProcessInjectionInstructions and *)
(* the steps they call, over an abstract disk.                             *)
(***************************************************************************)
EXTENDS Integers, Sequences, FiniteSets, TLC

(***************************************************************************)
(* Bounds of the model.                                                    *)
(***************************************************************************)
\* most segments in an instruction string handed to the parser alone
MaxSegs == 2
\* most segments in the instruction string of a modelled run of `create`
MaxRunSegs == 2
\* largest small count N written in a counted placeholder
MaxCount == 2
\* most template files a manual scaffold writes before the write that fails
MaxPartial == 1

(***************************************************************************)
(* Strings: a Go string is a sequence of one-character strings.            *)
(***************************************************************************)
S_createNewOpen == <<"{", "c", "r", "e", "a", "t", "e", "-", "n", "e", "w">>
S_createNew == S_createNewOpen \o <<"}">>
S_http == <<"h", "t", "t", "p">>
S_githubCom == <<"g", "i", "t", "h", "u", "b", ".", "c", "o", "m", "/">>
S_app == <<"a", "p", "p", "-">>
S_importedApp == <<"i", "m", "p", "o", "r", "t", "e", "d", "-", "a", "p", "p", "-">>
DigitChars == <<"0", "1", "2", "3", "4", "5", "6", "7", "8", "9">>
SpaceChars == {" ", "\t"}

IsDigit(c) == \E d \in 1..10 : DigitChars[d] = c
DigitVal(c) == (CHOOSE d \in 1..10 : DigitChars[d] = c) - 1

\* strings.HasPrefix
HasPrefix(s, p) == Len(s) >= Len(p) /\ SubSeq(s, 1, Len(p)) = p

\* s[from:] with a 1-based first index
Drop(s, from) == SubSeq(s, from, Len(s))

Min(S) == CHOOSE x \in S : \A y \in S : x <= y
Max(S) == CHOOSE x \in S : \A y \in S : x >= y

\* strings.TrimSpace: s without its leading and trailing white space
TrimSpace(s) ==
    LET keep == {k \in 1..Len(s) : s[k] \notin SpaceChars}
    IN  IF keep = {} THEN <<>> ELSE SubSeq(s, Min(keep), Max(keep))

\* strings.Split(s, sep): the pieces between the separators, one more than
\* there are separators; one empty piece for the empty string
Split(s, sep) ==
    LET at == {k \in 1..Len(s) : s[k] = sep}
        pos(j) == CHOOSE k \in at : Cardinality({x \in at : x < k}) = j - 1
        n == Cardinality(at) + 1
        first(j) == IF j = 1 THEN 1 ELSE pos(j - 1) + 1
        last(j) == IF j = n THEN Len(s) ELSE pos(j) - 1
    IN  [j \in 1..n |-> SubSeq(s, first(j), last(j))]

\* the %d verb of fmt.Sprintf for a non-negative number
RECURSIVE Itoa(_)
Itoa(n) ==
    IF n < 10 THEN <<DigitChars[n + 1]>>
    ELSE Itoa(n \div 10) \o <<DigitChars[(n % 10) + 1]>>

(***************************************************************************)
(* Go's int on a 64-bit platform: four 16-bit limbs, least significant     *)
(* first, two's complement.                                                *)
(***************************************************************************)
LimbBase == 256 * 256
SignLimb == 128 * 256
IntZero == <<0, 0, 0, 0>>

\* x * m + a for small m, a: the low 64 bits and the carry out of them
MulAdd(x, m, a) ==
    LET t1 == x[1] * m + a
        t2 == x[2] * m + (t1 \div LimbBase)
        t3 == x[3] * m + (t2 \div LimbBase)
        t4 == x[4] * m + (t3 \div LimbBase)
    IN  [val |-> <<t1 % LimbBase, t2 % LimbBase, t3 % LimbBase, t4 % LimbBase>>,
         carry |-> t4 \div LimbBase]

\* x + 1, wrapping modulo 2^64 as Go's int addition does
AddOne(x) == MulAdd(x, 1, 1).val

IsNegative(x) == x[4] >= SignLimb

\* the value of a machine int that a loop of the model can count up to
\* (below 2^30; a longer list of instructions does not fit in memory)
IsSmall(x) == x[2] < 64 * 256 /\ x[3] = 0 /\ x[4] = 0
SmallVal(x) == x[1] + x[2] * LimbBase

\* strconv.Atoi on a string of decimal digits: the value, or a range error
\* when it does not fit a signed 64-bit int
RECURSIVE AtoiFrom(_, _)
AtoiFrom(s, acc) ==
    IF s = <<>> THEN [err |-> FALSE, val |-> acc]
    ELSE LET r == MulAdd(acc, 10, DigitVal(Head(s)))
         IN  IF r.carry > 0 \/ IsNegative(r.val)
             THEN [err |-> TRUE, val |-> IntZero]
             ELSE AtoiFrom(Tail(s), r.val)

Atoi(s) == AtoiFrom(s, IntZero)

(***************************************************************************)
(* The instruction parser (cmd/create.go).                                 *)
(***************************************************************************)
NoError == [kind |-> "none", part |-> <<>>]
ParseError(k, p) == [kind |-> k, part |-> p]

\* utils.InjectionInstruction
InjectionInstruction(type, url, name) ==
    [Type |-> type, RepoURL |-> url, AppName |-> name, Branch |-> <<>>]

\* the longest prefix of s made of characters outside `stop`
RunOutside(s, stop) ==
    LET at == {k \in 1..Len(s) : s[k] \in stop}
    IN  IF at = {} THEN s ELSE SubSeq(s, 1, Min(at) - 1)

\* the regexp github\.com/[^/]+/([^/\.]+) tried at the start of s: the
\* owner is the run of non-slash characters, the group the run of
\* characters that are neither a slash nor a dot; both are non-empty
RepoMatchAt(s) ==
    IF ~HasPrefix(s, S_githubCom) THEN <<>>
    ELSE LET afterHost == Drop(s, Len(S_githubCom) + 1)
             ownerRun == RunOutside(afterHost, {"/"})
             afterOwner == Drop(afterHost, Len(ownerRun) + 1)
         IN  IF ownerRun = <<>> \/ afterOwner = <<>> THEN <<>>
             ELSE RunOutside(Tail(afterOwner), {"/", "."})

\* FindStringSubmatch: the group at the leftmost position where the regexp
\* matches, "" when it matches nowhere
FindRepoMatch(s) ==
    LET at == {p \in 1..Len(s) : RepoMatchAt(Drop(s, p)) # <<>>}
    IN  IF at = {} THEN <<>> ELSE RepoMatchAt(Drop(s, Min(at)))

\* extractRepoName: matches[1], or "" when the regexp does not match
extractRepoName(url) == FindRepoMatch(url)

\* createNewRegex, ^{create-new([+*])(\d+)}$
MatchCreateNew(part) ==
    LET n == Len(S_createNewOpen)
        ok == /\ HasPrefix(part, S_createNewOpen)
              /\ Len(part) >= n + 3
              /\ part[n + 1] \in {"+", "*"}
              /\ part[Len(part)] = "}"
              /\ \A k \in (n + 2)..(Len(part) - 1) : IsDigit(part[k])
    IN  IF ok
        THEN [ok |-> TRUE, operator |-> part[n + 1],
              digits |-> SubSeq(part, n + 2, Len(part) - 1)]
        ELSE [ok |-> FALSE, operator |-> "", digits |-> <<>>]

\* numApps of the switch on the operator
NumApps(operator, count) == IF operator = "+" THEN AddOne(count) ELSE count

\* AppendApps with each instruction named after its number within the
\* placeholder instead of the length of the list (a faulty variant)
RECURSIVE AppendAppsNamedWithinSegment(_, _)
AppendAppsNamedWithinSegment(instructions, n) ==
    IF n = 0 THEN instructions
    ELSE Append(AppendAppsNamedWithinSegment(instructions, n - 1),
                InjectionInstruction("create-new", <<>>, S_app \o Itoa(n)))

\* `for range numApps`: one create-new instruction per iteration, each
\* named after the length of the list so far
RECURSIVE AppendApps(_, _)
AppendApps(instructions, n) ==
    IF n = 0 THEN instructions
    ELSE AppendApps(
             Append(instructions,
                    InjectionInstruction("create-new", <<>>,
                                         S_app \o Itoa(Len(instructions) + 1))),
             n - 1)

\* the name fmt.Sprintf("app-%d", i+1) gives a literal {create-new}; i is
\* the 0-based index of the segment
LiteralAppName(i, instructions) == S_app \o Itoa(i + 1)

\* ImportedAppName with the running count of instructions instead of the
\* segment index (a faulty variant)
ImportedAppNameByCount(i, instructions) == S_importedApp \o Itoa(Len(instructions) + 1)

\* the name fmt.Sprintf("imported-app-%d", i+1) gives an import whose URL
\* yields no repository name
ImportedAppName(i, instructions) == S_importedApp \o Itoa(i + 1)

\* InvalidInstruction returning the instructions parsed so far along with
\* the error (a faulty variant)
InvalidInstructionKeepingParsed(part, instructions) ==
    [err |-> ParseError("invalid injection instruction", part),
     instructions |-> instructions]

\* the final else of the loop: return nil and an error that carries the
\* trimmed segment
InvalidInstruction(part, instructions) ==
    [err |-> ParseError("invalid injection instruction", part),
     instructions |-> <<>>]

\* the body of the loop over parts, from the 0-based index i on
RECURSIVE ParseParts(_, _, _)
ParseParts(parts, i, instructions) ==
    IF i >= Len(parts) THEN [err |-> NoError, instructions |-> instructions]
    ELSE
    LET part == TrimSpace(parts[i + 1])
        m == MatchCreateNew(part)
    IN  IF part = S_createNew
        THEN ParseParts(parts, i + 1,
                 Append(instructions,
                        InjectionInstruction("create-new", <<>>,
                                             LiteralAppName(i, instructions))))
        ELSE IF m.ok
        THEN LET count == Atoi(m.digits)
                 numApps == NumApps(m.operator, count.val)
             IN  IF count.err
                 THEN [err |-> ParseError("invalid number in expression", part),
                       instructions |-> <<>>]
                 ELSE IF IsNegative(numApps)
                 THEN ParseParts(parts, i + 1, instructions)
                 ELSE IF ~IsSmall(numApps)
                 THEN [err |-> ParseError("fatal: out of memory", part),
                       instructions |-> <<>>]
                 ELSE ParseParts(parts, i + 1,
                                 AppendApps(instructions, SmallVal(numApps)))
        ELSE IF HasPrefix(part, S_http)
        THEN LET repoName == extractRepoName(part)
                 appName == IF repoName = <<>>
                            THEN ImportedAppName(i, instructions)
                            ELSE repoName
             IN  ParseParts(parts, i + 1,
                     Append(instructions,
                            InjectionInstruction("import-repo", part, appName)))
        ELSE InvalidInstruction(part, instructions)

parseInjectInstructions(injectStr) == ParseParts(Split(injectStr, "|"), 0, <<>>)

(***************************************************************************)
(* Instruction strings given to the program.  A string is described by the *)
(* list of its segments and rendered to characters; the program sees only  *)
(* the characters.                                                         *)
(***************************************************************************)
S_https == <<"h", "t", "t", "p", "s", ":", "/", "/">>
S_exampleOrg == <<"e", "x", "a", "m", "p", "l", "e", ".", "o", "r", "g", "/">>
S_dotGit == <<".", "g", "i", "t">>
S_acme == <<"a", "c", "m", "e">>
S_myOrg == <<"m", "y", ".", "o", "r", "g">>
S_widgets == <<"w", "i", "d", "g", "e", "t", "s">>
S_nextJs == <<"n", "e", "x", "t", ".", "j", "s">>
S_app2 == <<"a", "p", "p", "-", "2">>
S_bad == <<"n", "o", "t", "-", "v", "a", "l", "i", "d">>
\* 9223372036854775807, the largest int, and the number after it
S_maxInt == <<"9", "2", "2", "3", "3", "7", "2", "0", "3", "6",
              "8", "5", "4", "7", "7", "5", "8", "0", "7">>
S_maxIntPlus1 == <<"9", "2", "2", "3", "3", "7", "2", "0", "3", "6",
                   "8", "5", "4", "7", "7", "5", "8", "0", "8">>

Seg(kind, pad, op, digits, n, github, owner, repo, git) ==
    [kind |-> kind, pad |-> pad, op |-> op, digits |-> digits, n |-> n,
     github |-> github, owner |-> owner, repo |-> repo, git |-> git]

LiteralSeg(pad) == Seg("literal", pad, "", <<>>, 0, FALSE, <<>>, <<>>, FALSE)
\* n is the number the digits denote when it is a small count; -1 stands for
\* 9223372036854775807 and -2 for 9223372036854775808
CountedSeg(op, digits, n) ==
    Seg("counted", FALSE, op, digits, n, FALSE, <<>>, <<>>, FALSE)
UrlSeg(github, owner, repo, git) ==
    Seg("url", FALSE, "", <<>>, 0, github, owner, repo, git)
InvalidSeg(text) == Seg("invalid", FALSE, "", text, 0, FALSE, <<>>, <<>>, FALSE)

Pad(pad) == IF pad THEN <<" ">> ELSE <<>>

RenderSeg(g) ==
    CASE g.kind = "literal" -> Pad(g.pad) \o S_createNew \o Pad(g.pad)
      [] g.kind = "counted" -> S_createNewOpen \o <<g.op>> \o g.digits \o <<"}">>
      [] g.kind = "url" ->
            S_https \o (IF g.github THEN S_githubCom ELSE S_exampleOrg)
                \o g.owner \o <<"/">> \o g.repo
                \o (IF g.git THEN S_dotGit ELSE <<>>)
      [] OTHER -> g.digits

RECURSIVE Render(_)
Render(gs) ==
    IF gs = <<>> THEN <<>>
    ELSE IF Len(gs) = 1 THEN RenderSeg(gs[1])
    ELSE RenderSeg(gs[1]) \o <<"|">> \o Render(Tail(gs))

SmallCounted ==
    {CountedSeg(op, Itoa(n), n) : op \in {"+", "*"}, n \in 0..MaxCount}
        \cup {CountedSeg(op, <<"0">> \o Itoa(MaxCount), MaxCount) : op \in {"+", "*"}}

Segments ==
    {LiteralSeg(pad) : pad \in BOOLEAN}
        \cup SmallCounted
        \cup {CountedSeg("+", S_maxInt, -1)}
        \cup {CountedSeg(op, S_maxIntPlus1, -2) : op \in {"+", "*"}}
        \cup {UrlSeg(TRUE, S_acme, repo, git) :
                repo \in {S_widgets, S_nextJs, S_app2}, git \in BOOLEAN}
        \cup {UrlSeg(TRUE, S_myOrg, S_widgets, FALSE),
              UrlSeg(FALSE, S_acme, S_widgets, FALSE)}
        \cup {InvalidSeg(S_bad), InvalidSeg(<<>>), InvalidSeg(<<" ">>)}

SeqsUpTo(S, n) == UNION {[1..k -> S] : k \in 0..n}

ParseInputs == SeqsUpTo(Segments, MaxSegs)

(***************************************************************************)
(* Errors and the disk.                                                    *)
(***************************************************************************)
\* an error value: the messages of the fmt.Errorf wrappers, outermost
\* first, and the name or URL the outermost instruction message carries
Nil == [chain |-> <<>>, subject |-> <<>>]
Errorf(msg) == [chain |-> <<msg>>, subject |-> <<>>]
Wrap(msg, err) == [err EXCEPT !.chain = <<msg>> \o @]
WrapWith(msg, subject, err) == [chain |-> <<msg>> \o err.chain, subject |-> subject]

\* JSON values: a string, a value of another type, or no value for the key
StrVal(s) == [kind |-> "string", str |-> s]
OtherVal == [kind |-> "other", str |-> <<>>]
Absent == [kind |-> "absent", str |-> <<>>]

\* the plugins of a task-runner config: a list of entries, each a string or
\* an object with a "plugin" key, or a value that is not a list, or no key
Plugins(items) == [kind |-> "list", items |-> items]
NoPlugins == [kind |-> "absent", items |-> <<>>]
OtherPlugins == [kind |-> "other", items |-> <<>>]
PluginString(name) == [form |-> "string", name |-> name]
PluginObject(name) == [form |-> "object", name |-> name]

\* a JSON document on disk: absent, unparsable, or an object.  Of an object:
\* its name, its scripts (the key/command pairs when the value is an
\* object), its defaultProject and plugins, whether the settings of
\* updateNxJSONForMonorepo are in it, and the other top-level keys
NoDoc == [state |-> "absent", name |-> <<>>, scriptsKind |-> "absent", scripts |-> {},
          defaultProject |-> Absent, plugins |-> NoPlugins, configured |-> FALSE,
          keys |-> {}]
BadDoc == [NoDoc EXCEPT !.state = "invalid"]
Doc(name, scripts) ==
    [NoDoc EXCEPT !.state = "ok", !.name = name, !.scriptsKind = "object",
                  !.scripts = scripts]

S_ws == <<"w", "s">>
S_nx == <<"n", "x">>
S_build == <<"b", "u", "i", "l", "d">>
S_serve == <<"s", "e", "r", "v", "e">>
S_test == <<"t", "e", "s", "t">>
S_lint == <<"l", "i", "n", "t">>
S_graph == <<"g", "r", "a", "p", "h">>
S_start == <<"s", "t", "a", "r", "t">>

\* the manifest and the task-runner config a template archive may carry
TemplatePkg == Doc(S_nx, {<<S_start, S_nx \o <<" ">> \o S_serve>>})
TemplateNx == [NoDoc EXCEPT !.state = "ok"]

\* the workspace directory: what the fetch extracted, the two workspace
\* documents, whether apps/ exists, the directories apps/<name> and the files
\* in them, each with the content it holds
EmptyDisk ==
    [tree |-> "none", pkg |-> NoDoc, nx |-> NoDoc, appsDir |-> FALSE,
     dirs |-> {}, files |-> {}]

File(app, file, content) == [app |-> app, file |-> file, content |-> content]

\* os.MkdirAll of a directory under apps/<app>
MkdirApp(d, app) == [d EXCEPT !.appsDir = TRUE, !.dirs = @ \cup {app}]

\* os.WriteFile of each of `names` in apps/<app>, replacing what is there
WriteFiles(d, app, names, content) ==
    [d EXCEPT !.files = {f \in @ : ~(f.app = app /\ f.file \in names)}
                            \cup {File(app, n, content) : n \in names}]

\* os.Remove / os.RemoveAll of entries of apps/<app>
RemoveFiles(d, app, names) ==
    [d EXCEPT !.files = {f \in @ : ~(f.app = app /\ f.file \in names)}]

Exists(d, app, file) == \E f \in d.files : f.app = app /\ f.file = file

(***************************************************************************)
(* The config rewriters (internal/utils).  Each reads a document, edits it *)
(* in memory and writes the whole file back with os.WriteFile; `write` is  *)
(* the outcome of that call: "ok", "denied" (the file cannot be opened for *)
(* writing) or "partial" (the file was opened, which truncates it, and the *)
(* write then failed, as on a full disk).                                  *)
(***************************************************************************)
WriteOutcomes == {"ok", "denied", "partial"}

\* the outcome of the write of a file under a fault of the environment
WriteOutcome(fault, denied, partial) ==
    IF fault = denied THEN "denied"
    ELSE IF fault = partial THEN "partial"
    ELSE "ok"

\* what a rewriter comes to: the document on disk afterwards, the error
\* returned, and whether the call panicked instead of returning
Outcome(doc, err) == [doc |-> doc, err |-> err, panic |-> FALSE]
Panicked(doc) == [doc |-> doc, err |-> Nil, panic |-> TRUE]

\* os.ReadFile followed by json.Unmarshal
ReadError(doc) ==
    IF doc.state = "absent" THEN Errorf("open: no such file or directory")
    ELSE IF doc.state = "invalid" THEN Errorf("invalid character in JSON")
    ELSE Nil

Rewrite(doc, edited, write) ==
    IF ReadError(doc) # Nil THEN Outcome(doc, ReadError(doc))
    ELSE IF write = "denied" THEN Outcome(doc, Errorf("write: permission denied"))
    ELSE IF write = "partial"
    THEN Outcome(BadDoc, Errorf("write: no space left on device"))
    ELSE Outcome(edited, Nil)

\* updatePackageJSON: set the name
updatePackageJSON(doc, appName, write) ==
    Rewrite(doc, [doc EXCEPT !.name = appName], write)

S_nxReactRouterPlugin == <<"@", "n", "x", "/", "r", "e", "a", "c", "t", "/", "r", "o", "u", "t", "e", "r", "-", "p", "l", "u", "g", "i", "n">>
S_nxEslintPlugin == <<"@", "n", "x", "/", "e", "s", "l", "i", "n", "t", "/", "p", "l", "u", "g", "i", "n">>
S_nxVitePlugin == <<"@", "n", "x", "/", "v", "i", "t", "e", "/", "p", "l", "u", "g", "i", "n">>
S_nxPlaywrightPlugin == <<"@", "n", "x", "/", "p", "l", "a", "y", "w", "r", "i", "g", "h", "t", "/", "p", "l", "u", "g", "i", "n">>

\* the plugins updateNxJSONForMonorepo sets
ModernPlugins ==
    Plugins(<<PluginObject(S_nxReactRouterPlugin), PluginObject(S_nxEslintPlugin),
              PluginObject(S_nxVitePlugin), PluginObject(S_nxPlaywrightPlugin)>>)

\* updateNxJSONForMonorepo: schema, named inputs, plugins and generators are
\* set; the default project is set to the first instruction's app when there
\* is one
\* a faulty variant: the default project is the last instruction's app
updateNxJSONForMonorepoLastProject(doc, instructions, write) ==
    Rewrite(doc,
            [doc EXCEPT !.configured = TRUE,
                        !.plugins = ModernPlugins,
                        !.defaultProject = StrVal(IF Len(instructions) > 0
                                                  THEN instructions[Len(instructions)].AppName
                                                  ELSE <<>>)],
            write)

updateNxJSONForMonorepo(doc, instructions, write) ==
    Rewrite(doc,
            [doc EXCEPT !.configured = TRUE,
                        !.plugins = ModernPlugins,
                        !.defaultProject = IF Len(instructions) > 0
                                           THEN StrVal(instructions[1].AppName)
                                           ELSE @],
            write)

SetScript(scripts, key, cmd) == {p \in scripts : p[1] # key} \cup {<<key, cmd>>}

NxCommand(verb) == S_nx \o <<" ">> \o verb
AppKey(verb, appName) == verb \o <<":">> \o appName
AppCommand(verb, appName) == NxCommand(verb) \o <<" ">> \o appName

WorkspaceVerbs == <<S_build, S_test, S_lint, S_serve, S_graph>>
AppVerbs == <<S_build, S_serve, S_test, S_lint>>

RECURSIVE SetWorkspaceScripts(_, _)
SetWorkspaceScripts(scripts, k) ==
    IF k > Len(WorkspaceVerbs) THEN scripts
    ELSE SetWorkspaceScripts(
             SetScript(scripts, WorkspaceVerbs[k], NxCommand(WorkspaceVerbs[k])),
             k + 1)

RECURSIVE SetAppScripts(_, _, _)
SetAppScripts(scripts, appName, k) ==
    IF k > Len(AppVerbs) THEN scripts
    ELSE SetAppScripts(
             SetScript(scripts, AppKey(AppVerbs[k], appName),
                       AppCommand(AppVerbs[k], appName)),
             appName, k + 1)

RECURSIVE SetAllAppScripts(_, _, _)
SetAllAppScripts(scripts, instructions, i) ==
    IF i > Len(instructions) THEN scripts
    ELSE SetAllAppScripts(SetAppScripts(scripts, instructions[i].AppName, 1),
                          instructions, i + 1)

\* strings.Contains for a non-empty substring
Contains(s, sub) ==
    \E p \in 1..(Len(s) - Len(sub) + 1) : SubSeq(s, p, p + Len(sub) - 1) = sub

S_react == <<"r", "e", "a", "c", "t">>
S_nxReactPlugin == <<"@", "n", "x", "/", "r", "e", "a", "c", "t", "/", "p", "l", "u", "g", "i", "n">>

\* updateNxJson: is one of the plugins a string containing "react"
HasReactPlugin(items) ==
    \E i \in 1..Len(items) :
        items[i].form = "string" /\ Contains(items[i].name, S_react)

\* updateNxJson (the older rewriter of nx.json): defaultProject is set when
\* the key exists; an empty plugins list is made when there is none; the
\* value is asserted to be a list, which panics when it is not;
\* "@nx/react/plugin" is appended unless a string plugin contains "react"
updateNxJson(doc, appName, write) ==
    IF ReadError(doc) = Nil /\ doc.plugins.kind = "other" THEN Panicked(doc)
    ELSE Rewrite(doc,
                 [doc EXCEPT !.defaultProject = IF @.kind # "absent"
                                                THEN StrVal(appName)
                                                ELSE @,
                             !.plugins = IF HasReactPlugin(@.items)
                                         THEN Plugins(@.items)
                                         ELSE Plugins(Append(@.items,
                                                             PluginString(S_nxReactPlugin)))],
                 write)

\* a faulty variant: the scripts object is made anew, whatever it held
updateRootPackageJSONReplacingScripts(doc, instructions, write) ==
    IF ReadError(doc) = Nil /\ doc.scriptsKind = "other" THEN Panicked(doc)
    ELSE Rewrite(doc,
                 [doc EXCEPT !.scriptsKind = "object",
                             !.scripts =
                                 SetAllAppScripts(SetWorkspaceScripts({}, 1),
                                                  instructions, 1)],
                 write)

\* updateRootPackageJSON: a scripts object is made when the key is absent;
\* the value is asserted to be an object, which panics when it is not; the
\* five workspace scripts are set, then four scripts per instruction
updateRootPackageJSON(doc, instructions, write) ==
    IF ReadError(doc) = Nil /\ doc.scriptsKind = "other" THEN Panicked(doc)
    ELSE Rewrite(doc,
                 [doc EXCEPT !.scriptsKind = "object",
                             !.scripts =
                                 SetAllAppScripts(SetWorkspaceScripts(@, 1),
                                                  instructions, 1)],
                 write)

(***************************************************************************)
(* The rewriters of an application's own documents (internal/utils):       *)
(* updateImportedPackageJSON for the manifest of an imported app,          *)
(* updateSingleProjectJson for the descriptor of a generated app.  A JSON  *)
(* value that is looked at is a record tagged with its kind; `format` is   *)
(* how the file is laid out: as its author wrote it, or as                 *)
(* json.MarshalIndent writes it.                                           *)
(***************************************************************************)
\* strings.ReplaceAll for a non-empty old: the occurrences are found left to
\* right, without overlap, in s as it was given
RECURSIVE ReplaceAll(_, _, _)
ReplaceAll(s, old, new) ==
    IF Len(s) < Len(old) THEN s
    ELSE IF HasPrefix(s, old)
    THEN new \o ReplaceAll(Drop(s, Len(old) + 1), old, new)
    ELSE <<Head(s)>> \o ReplaceAll(Tail(s), old, new)

S_typesNode == <<"@", "t", "y", "p", "e", "s", "/", "n", "o", "d", "e">>
S_vitest == <<"v", "i", "t", "e", "s", "t">>

\* buildTools of updateImportedPackageJSON
BuildTools ==
    {<<"r", "e", "a", "c", "t", "-", "s", "c", "r", "i", "p", "t", "s">>,
     <<"@", "v", "i", "t", "e", "j", "s", "/", "p", "l", "u", "g", "i", "n", "-", "r", "e", "a", "c", "t">>,
     <<"v", "i", "t", "e">>,
     <<"w", "e", "b", "p", "a", "c", "k">>,
     <<"e", "s", "l", "i", "n", "t">>,
     <<"@", "e", "s", "l", "i", "n", "t">>,
     <<"p", "r", "e", "t", "t", "i", "e", "r">>,
     S_typesNode,
     <<"t", "y", "p", "e", "s", "c", "r", "i", "p", "t">>,
     S_vitest,
     <<"@", "t", "e", "s", "t", "i", "n", "g", "-", "l", "i", "b", "r", "a", "r", "y">>}

\* the scripts updateImportedPackageJSON deletes
ConflictingScripts ==
    {"start", "build", "test", "dev", "serve", "lint", "eject", "preview"}

\* the top-level keys updateImportedPackageJSON deletes
ManagedKeys == {"devDependencies", "eslintConfig", "browserslist", "homepage", "type"}

\* a package.json: its name and private values, its scripts and dependencies
\* (the set of their keys when they are objects), and the other top-level
\* keys it has
Manifest(name, private, scripts, dependencies, keys) ==
    [format |-> "as-written", name |-> name, private |-> private,
     scripts |-> scripts, dependencies |-> dependencies, keys |-> keys]

KeySet(keys) == [kind |-> "object", keys |-> keys]
NotAnObject == [kind |-> "other", keys |-> {}]
NoObject == [kind |-> "absent", keys |-> {}]

\* updateImportedPackageJSON setting the name to the old name followed by
\* the app name (a faulty variant)
updateImportedPackageJSONAppendingName(doc, appName) ==
    [doc EXCEPT !.format = "marshalled",
                !.name = StrVal(@.str \o appName),
                !.private = "true"]

\* a faulty variant: every script is deleted, not only the conflicting ones
updateImportedPackageJSONDroppingScripts(doc, appName) ==
    [doc EXCEPT
        !.format = "marshalled",
        !.name = StrVal(appName),
        !.private = "true",
        !.scripts = IF @.kind = "object" THEN KeySet({}) ELSE @,
        !.dependencies =
            IF @.kind = "object"
            THEN KeySet({dep \in @.keys :
                            ~\E tool \in BuildTools : Contains(dep, tool)})
            ELSE @,
        !.keys = @ \ ManagedKeys]

\* updateImportedPackageJSON: the document is read, name and private are
\* set, the conflicting scripts, the build-tool dependencies and the managed
\* keys are deleted, and the document is marshalled back
updateImportedPackageJSON(doc, appName) ==
    [doc EXCEPT
        !.format = "marshalled",
        !.name = StrVal(appName),
        !.private = "true",
        !.scripts = IF @.kind = "object"
                    THEN KeySet(@.keys \ ConflictingScripts)
                    ELSE @,
        !.dependencies =
            IF @.kind = "object"
            THEN KeySet({dep \in @.keys :
                            ~\E tool \in BuildTools : Contains(dep, tool)})
            ELSE @,
        !.keys = @ \ ManagedKeys]

S_myDashApp == <<"m", "y", "-", "a", "p", "p">>
S_myappPlain == <<"m", "y", "a", "p", "p">>
S_templateApp == <<"t", "e", "m", "p", "l", "a", "t", "e", "-", "a", "p", "p">>
S_nxApp == <<"n", "x", "-", "a", "p", "p">>

\* templateNames of replaceTemplateName, in the order they are replaced
TemplateNames == <<S_myDashApp, S_myappPlain, S_templateApp, S_nxApp>>

\* pathFields of updateOptionsMap
PathFields == {"outputPath", "main", "polyfills", "tsConfig", "index"}

\* replaceTemplateName with the names of TemplateNames from the k-th on
RECURSIVE ReplaceTemplateNamesFrom(_, _, _)
ReplaceTemplateNamesFrom(path, appName, k) ==
    IF k > Len(TemplateNames) THEN path
    ELSE ReplaceTemplateNamesFrom(ReplaceAll(path, TemplateNames[k], appName),
                                  appName, k + 1)

\* replaceTemplateName: one strings.ReplaceAll per template name, each on
\* the result of the one before
replaceTemplateName(path, appName) == ReplaceTemplateNamesFrom(path, appName, 1)

\* an options object: its fields and their values
Options(fields) == [kind |-> "object", fields |-> fields]
NoOptions == [kind |-> "absent", fields |-> [f \in {} |-> Absent]]
OtherOptions == [kind |-> "other", fields |-> [f \in {} |-> Absent]]

\* updateOptionsMap: each path field that holds a string gets
\* replaceTemplateName of it
updateOptionsMap(options, appName) ==
    IF options.kind # "object" THEN options
    ELSE Options([f \in DOMAIN options.fields |->
                    IF f \in PathFields /\ options.fields[f].kind = "string"
                    THEN StrVal(replaceTemplateName(options.fields[f].str, appName))
                    ELSE options.fields[f]])

\* a target: its options, and its configurations by name when they are an
\* object
Target(options, configurations) ==
    [kind |-> "object", options |-> options, configurations |-> configurations]
Configurations(configs) == [kind |-> "object", configs |-> configs]
NoConfigurations == [kind |-> "absent", configs |-> [c \in {} |-> NoOptions]]
OtherConfigurations == [kind |-> "other", configs |-> [c \in {} |-> NoOptions]]

\* the targets of a descriptor by name, when they are an object
Targets(targets) == [kind |-> "object", targets |-> targets]
NoTargets == [kind |-> "absent", targets |-> [t \in {} |-> NoOptions]]
OtherTargets == [kind |-> "other", targets |-> [t \in {} |-> NoOptions]]

\* updateTargetConfigs: the options of each target, and the options of each
\* of its configurations
updateTargetConfigs(targets, appName) ==
    Targets([t \in DOMAIN targets.targets |->
        LET target == targets.targets[t]
        IN  [target EXCEPT
                !.options = updateOptionsMap(@, appName),
                !.configurations =
                    IF @.kind # "object" THEN @
                    ELSE Configurations(
                             [c \in DOMAIN @.configs |->
                                 updateOptionsMap(@.configs[c], appName)])]])

\* a project.json
Descriptor(name, sourceRoot, targets) ==
    [format |-> "as-written", name |-> name, sourceRoot |-> sourceRoot,
     targets |-> targets]

\* updateSingleProjectJson: the name becomes <appName>-<projectDir>, my-app
\* is replaced in a sourceRoot that is a string, the targets are updated,
\* and the document is marshalled back
updateSingleProjectJson(doc, appName, projectDir) ==
    [doc EXCEPT
        !.format = "marshalled",
        !.name = StrVal(appName \o <<"-">> \o projectDir),
        !.sourceRoot = IF @.kind = "string"
                       THEN StrVal(ReplaceAll(@.str, S_myDashApp, appName))
                       ELSE @,
        !.targets = IF @.kind = "object" THEN updateTargetConfigs(@, appName) ELSE @]

(***************************************************************************)
(* fetch-base and configure-base (internal/utils/fetch-github-repo.go).    *)
(***************************************************************************)
\* What a download can come to.  pkg and nx are the documents the archive's
\* entries put at <dest>/package.json and <dest>/nx.json: absent when the
\* archive has no entry of that path (as when all entries sit under a root
\* directory of the archive).
\* the status lines of the responses http.Get returns without an error
HttpStatuses == {"200 OK", "404 Not Found"}

FetchOutcomes ==
    {[kind |-> "get-error", status |-> "", pkg |-> NoDoc, nx |-> NoDoc]}
        \cup {[kind |-> k, status |-> s, pkg |-> NoDoc, nx |-> NoDoc] :
                k \in {"not-a-zip", "extract-error"}, s \in HttpStatuses}
        \cup {[kind |-> "ok", status |-> s, pkg |-> p, nx |-> n] :
                s \in HttpStatuses,
                p \in {NoDoc, BadDoc, TemplatePkg}, n \in {NoDoc, BadDoc, TemplateNx}}

\* FetchNxTemplate with extractZipArchive: http.Get, the body saved and
\* opened as a ZIP, each entry extracted under destPath
\* FetchNxTemplate: the response is handed to extractZipArchive whatever its
\* status (only the error of http.Get is looked at)
FetchNxTemplate(d, out) ==
    IF out.kind = "get-error"
    THEN [disk |-> d, err |-> Errorf("failed to download repository")]
    ELSE IF out.kind = "not-a-zip"
    THEN [disk |-> d, err |-> Errorf("failed to open ZIP file")]
    ELSE IF out.kind = "extract-error"
    THEN [disk |-> [d EXCEPT !.tree = "partial"], err |-> Errorf("failed to create file")]
    ELSE [disk |-> [d EXCEPT !.tree = "full",
                             !.pkg = IF out.pkg = NoDoc THEN @ ELSE out.pkg,
                             !.nx = IF out.nx = NoDoc THEN @ ELSE out.nx],
          err |-> Nil]

ConfigureFaults ==
    {"none", "init-write", "init-eslint", "init-mkdir", "write-package.json",
     "write-nx.json", "partial-package.json", "partial-nx.json"}

\* initializeNodeProject: a default package.json, nx.json when there is none,
\* eslint.config.mjs, and the directories apps, libs and tools
initializeNodeProject(d, workspaceName, fault) ==
    LET d1 == [d EXCEPT !.pkg = Doc(workspaceName, {})]
        nx == updateNxJSONForMonorepo(
                  d1.nx, <<>>, WriteOutcome(fault, "write-nx.json", "partial-nx.json"))
        d2 == [d1 EXCEPT !.nx = nx.doc]
    IN  IF fault = "init-write"
        THEN [disk |-> d, err |-> Errorf("failed to write package.json")]
        ELSE IF d1.nx.state = "absent" /\ nx.err # Nil
        THEN [disk |-> d2, err |-> Wrap("failed to create nx.json", nx.err)]
        ELSE IF fault = "init-eslint"
        THEN [disk |-> IF d1.nx.state = "absent" THEN d2 ELSE d1,
              err |-> Errorf("failed to create eslint.config.mjs")]
        ELSE IF fault = "init-mkdir"
        THEN [disk |-> IF d1.nx.state = "absent" THEN d2 ELSE d1,
              err |-> Errorf("failed to create directory")]
        ELSE [disk |-> [(IF d1.nx.state = "absent" THEN d2 ELSE d1)
                            EXCEPT !.appsDir = TRUE],
              err |-> Nil]

\* ConfigureMonorepo
ConfigureMonorepo(d, workspaceName, fault) ==
    LET init == IF d.pkg.state = "absent"
                THEN initializeNodeProject(d, workspaceName, fault)
                ELSE [disk |-> d, err |-> Nil]
        pkg == updatePackageJSON(
                   init.disk.pkg, workspaceName,
                   WriteOutcome(fault, "write-package.json", "partial-package.json"))
        d1 == [init.disk EXCEPT !.pkg = pkg.doc]
        nx == updateNxJSONForMonorepo(
                  d1.nx, <<>>, WriteOutcome(fault, "write-nx.json", "partial-nx.json"))
        d2 == [d1 EXCEPT !.nx = nx.doc]
    IN  IF init.err # Nil
        THEN [disk |-> init.disk,
              err |-> Wrap("failed to initialize Node.js project", init.err)]
        ELSE IF pkg.err # Nil
        THEN [disk |-> d1, err |-> Wrap("failed to update package.json", pkg.err)]
        ELSE IF nx.err # Nil
        THEN [disk |-> d2, err |-> Wrap("failed to update nx.json", nx.err)]
        ELSE [disk |-> d2, err |-> Nil]

(***************************************************************************)
(* Provisioning one instruction (internal/utils injection code).           *)
(***************************************************************************)
TemplateFiles ==
    {"project.json", "src/main.tsx", "src/app/app.tsx", "src/styles.css",
     "public/index.html", "tsconfig.json", "tsconfig.app.json", "vite.config.ts"}

\* what the external generator leaves in the directory it creates
GeneratedFiles == {"project.json", "package.json", "src/main.tsx"}

\* the files a manual scaffold may have written when one of its writes
\* fails: the map of files is ranged over in no fixed order
PartialWrites(names) ==
    {w \in SUBSET names : Cardinality(w) <= MaxPartial /\ w # names}

\* the environment of a create-new instruction: whether apps/ can be made,
\* what the generator does, and where the manual scaffold fails if it does
CreateEnvs ==
    {[mkdirApps |-> m, gen |-> g, fault |-> f, written |-> w] :
        m \in {TRUE}, g \in {"failed", "ok-created", "ok-nothing"},
        f \in {"none", "mkdir"}, w \in {{}}}
      \cup {[mkdirApps |-> TRUE, gen |-> g, fault |-> "write", written |-> w] :
              g \in {"failed", "ok-nothing"}, w \in PartialWrites(TemplateFiles)}
      \cup {[mkdirApps |-> FALSE, gen |-> "failed", fault |-> "none", written |-> {}]}

\* createReactAppManually with a cleanup of apps/<appName> when a write
\* fails (a faulty variant: the code removes nothing)
createReactAppManuallyWithCleanup(d, appName, env) ==
    IF env.fault = "mkdir"
    THEN [disk |-> d, err |-> Errorf("failed to create directory")]
    ELSE IF env.fault = "write"
    THEN [disk |-> [d EXCEPT !.dirs = @ \ {appName},
                             !.files = {f \in @ : f.app # appName}],
          err |-> Errorf("failed to create file")]
    ELSE [disk |-> WriteFiles(MkdirApp(d, appName), appName, TemplateFiles, "template"),
          err |-> Nil]

\* createReactAppManually: four directories, then the eight template files
createReactAppManually(d, appName, env) ==
    IF env.fault = "mkdir"
    THEN [disk |-> d, err |-> Errorf("failed to create directory")]
    ELSE IF env.fault = "write"
    THEN [disk |-> WriteFiles(MkdirApp(d, appName), appName, env.written, "template"),
          err |-> Errorf("failed to create file")]
    ELSE [disk |-> WriteFiles(MkdirApp(d, appName), appName, TemplateFiles, "template"),
          err |-> Nil]

\* createNewReactApp returning the generator's failure instead of falling
\* back to the manual scaffold (a faulty variant)
createNewReactAppWithoutFallback(d, appName, env) ==
    LET d1 == [d EXCEPT !.appsDir = TRUE]
    IN  IF ~env.mkdirApps
        THEN [disk |-> d, err |-> Errorf("failed to create apps directory")]
        ELSE IF env.gen = "failed"
        THEN [disk |-> d1, err |-> Errorf("exit status 1")]
        ELSE [disk |-> WriteFiles(MkdirApp(d1, appName), appName, GeneratedFiles,
                                  "generated"),
              err |-> Nil]

\* createNewReactApp: apps/ is made, the generator is run in it, and the
\* manual scaffold is the fallback when the generator fails or leaves no
\* directory apps/<appName>
createNewReactApp(d, appName, env) ==
    LET d1 == [d EXCEPT !.appsDir = TRUE]
        generated == WriteFiles(MkdirApp(d1, appName), appName, GeneratedFiles,
                                "generated")
    IN  IF ~env.mkdirApps
        THEN [disk |-> d, err |-> Errorf("failed to create apps directory")]
        ELSE IF env.gen = "failed"
        THEN createReactAppManually(d1, appName, env)
        ELSE IF env.gen = "ok-created"
        THEN [disk |-> generated, err |-> Nil]
        ELSE IF appName \in d1.dirs
        THEN [disk |-> d1, err |-> Nil]
        ELSE createReactAppManually(d1, appName, env)

\* the trees a cloned repository may hold, besides .git
RepoContents ==
    {{"package.json", "src/index.js"},
     {"package.json", "project.json", "webpack.config.js", "src/index.js"}}

ConflictingFiles ==
    {"webpack.config.js", "craco.config.js", ".env.local", ".env.development.local",
     ".env.production.local"}

TsConfigFiles == {"tsconfig.json", "tsconfig.app.json", "tsconfig.spec.json"}

ConvertFaults == {"none", "project.json", "vite.config.ts", "package.json", "tsconfig"}

\* the environment of an import-repo instruction: which branches can be
\* cloned, what the repository holds, whether .git can be removed, whether
\* the conflicting files can be, where the conversion fails if it does
ImportEnvs ==
    {[main |-> m, master |-> ms, repo |-> r, gitRemoved |-> g,
      conflictsRemoved |-> c, fault |-> f] :
        m \in BOOLEAN, ms \in BOOLEAN, r \in RepoContents, g \in BOOLEAN,
        c \in BOOLEAN, f \in ConvertFaults}

\* cloneRepo: git clone --branch <branch> --depth 1; git refuses a
\* destination that exists and is not empty
cloneRepo(d, appName, repo, available) ==
    IF available /\ appName \notin d.dirs
    THEN [disk |-> WriteFiles(MkdirApp(d, appName), appName, repo \cup {".git"},
                              "cloned"),
          err |-> Nil]
    ELSE [disk |-> d, err |-> Errorf("exit status 128")]

\* convertToNxProject failing when a conflicting file that is present cannot
\* be removed (a faulty variant: the code ignores what os.Remove returns)
convertToNxProjectStrictRemoval(d, appName, env) ==
    LET d1 == WriteFiles(d, appName,
                         {"project.json", "vite.config.ts", "vite-env.d.ts"}
                             \cup TsConfigFiles,
                         "converted")
    IN  IF \E n \in ConflictingFiles : Exists(d, appName, n)
        THEN IF env.conflictsRemoved
             THEN [disk |-> RemoveFiles(d1, appName, ConflictingFiles), err |-> Nil]
             ELSE [disk |-> d1, err |-> Errorf("failed to remove conflicting file")]
        ELSE [disk |-> d1, err |-> Nil]

\* convertToNxProject: project.json, vite.config.ts, the manifest when there
\* is one, the TypeScript configs, then the conflicting files removed; the
\* result of os.Remove is not looked at
convertToNxProject(d, appName, env) ==
    LET fault == env.fault
        d1 == WriteFiles(d, appName, {"project.json"}, "converted")
        d2 == WriteFiles(d1, appName, {"vite.config.ts"}, "converted")
        d3 == IF Exists(d2, appName, "package.json")
              THEN WriteFiles(d2, appName, {"package.json"}, "normalized")
              ELSE d2
        d4 == WriteFiles(d3, appName, TsConfigFiles \cup {"vite-env.d.ts"}, "converted")
    IN  IF fault = "project.json"
        THEN [disk |-> d,
              err |-> Wrap("failed to create project.json",
                           Errorf("failed to write project.json"))]
        ELSE IF fault = "vite.config.ts"
        THEN [disk |-> d1, err |-> Errorf("failed to create vite.config.ts")]
        ELSE IF fault = "package.json" /\ Exists(d2, appName, "package.json")
        THEN [disk |-> d2, err |-> Errorf("failed to update package.json")]
        ELSE IF fault = "tsconfig"
        THEN [disk |-> d3, err |-> Errorf("failed to create TypeScript config")]
        ELSE [disk |-> IF env.conflictsRemoved
                       THEN RemoveFiles(d4, appName, ConflictingFiles)
                       ELSE d4,
              err |-> Nil]

\* importExistingRepo without the second clone attempt (a faulty variant)
importExistingRepoMainOnly(d, instruction, env) ==
    LET appName == instruction.AppName
        main == cloneRepo(d, appName, env.repo, env.main)
        d1 == IF env.gitRemoved THEN RemoveFiles(main.disk, appName, {".git"})
              ELSE main.disk
        conv == convertToNxProject(d1, appName, env)
    IN  IF main.err # Nil
        THEN [disk |-> d, err |-> Wrap("failed to clone repository", main.err),
              clones |-> <<"main">>]
        ELSE IF conv.err # Nil
        THEN [disk |-> conv.disk,
              err |-> Wrap("failed to convert to Nx project", conv.err),
              clones |-> <<"main">>]
        ELSE [disk |-> conv.disk, err |-> Nil, clones |-> <<"main">>]

\* importExistingRepo: main is cloned, master when that fails; .git is
\* removed if it can be; the tree is converted.  `clones` lists the branches
\* cloneRepo was called with, in order.
importExistingRepo(d, instruction, env) ==
    LET appName == instruction.AppName
        main == cloneRepo(d, appName, env.repo, env.main)
        master == cloneRepo(d, appName, env.repo, env.master)
        cloned == IF main.err = Nil THEN main ELSE master
        clones == IF main.err = Nil THEN <<"main">> ELSE <<"main", "master">>
        d1 == IF env.gitRemoved THEN RemoveFiles(cloned.disk, appName, {".git"})
              ELSE cloned.disk
        conv == convertToNxProject(d1, appName, env)
    IN  IF cloned.err # Nil
        THEN [disk |-> d, err |-> Wrap("failed to clone repository", cloned.err),
              clones |-> clones]
        ELSE IF conv.err # Nil
        THEN [disk |-> conv.disk,
              err |-> Wrap("failed to convert to Nx project", conv.err),
              clones |-> clones]
        ELSE [disk |-> conv.disk, err |-> Nil, clones |-> clones]

\* the body of the loop of ProcessInjectionInstructions for one instruction
ProcessInstruction(d, instruction, env) ==
    IF instruction.Type = "create-new"
    THEN LET r == createNewReactApp(d, instruction.AppName, env)
         IN  [disk |-> r.disk,
              err |-> IF r.err = Nil THEN Nil
                      ELSE WrapWith("failed to create new React app",
                                    instruction.AppName, r.err),
              clones |-> <<>>]
    ELSE IF instruction.Type = "import-repo"
    THEN LET r == importExistingRepo(d, instruction, env)
         IN  [disk |-> r.disk,
              err |-> IF r.err = Nil THEN Nil
                      ELSE WrapWith("failed to import repo", instruction.RepoURL, r.err),
              clones |-> r.clones]
    ELSE [disk |-> d, err |-> Errorf("unknown instruction type"), clones |-> <<>>]

InstructionEnvs(instruction) ==
    IF instruction.Type = "create-new" THEN CreateEnvs ELSE ImportEnvs

FinalizeFaults ==
    {"none", "write-nx.json", "write-package.json", "partial-nx.json",
     "partial-package.json"}

\* updateMonorepoConfig: nx.json, then the root package.json (whose scripts,
\* in a run, are the object of the template or of initializeNodeProject)
updateMonorepoConfig(d, instructions, fault) ==
    LET nx == updateNxJSONForMonorepo(
                  d.nx, instructions,
                  WriteOutcome(fault, "write-nx.json", "partial-nx.json"))
        d1 == [d EXCEPT !.nx = nx.doc]
        pkg == updateRootPackageJSON(
                   d1.pkg, instructions,
                   WriteOutcome(fault, "write-package.json", "partial-package.json"))
        d2 == [d1 EXCEPT !.pkg = pkg.doc]
    IN  IF nx.err # Nil
        THEN [disk |-> d1, err |-> Wrap("failed to update nx.json", nx.err)]
        ELSE IF pkg.err # Nil
        THEN [disk |-> d2, err |-> Wrap("failed to update root package.json", pkg.err)]
        ELSE [disk |-> d2, err |-> Nil]

(***************************************************************************)
(* Archive extraction (extractZipArchive, extractFile).  A path is the     *)
(* sequence of its components from the root; a file system is the set of   *)
(* its ordinary files and the set of its directories (the root is always   *)
(* a directory).  An entry name is the sequence of the components of       *)
(* file.Name, split at "/": a name that starts with "/" has "" first.      *)
(***************************************************************************)
\* filepath.Clean of a rooted path: "" and "." are dropped, ".." drops the
\* component before it (and itself at the root)
RECURSIVE CleanFrom(_, _, _)
CleanFrom(parts, i, acc) ==
    IF i > Len(parts) THEN acc
    ELSE IF parts[i] \in {"", "."} THEN CleanFrom(parts, i + 1, acc)
    ELSE IF parts[i] = ".."
    THEN CleanFrom(parts, i + 1,
                   IF acc = <<>> THEN acc ELSE SubSeq(acc, 1, Len(acc) - 1))
    ELSE CleanFrom(parts, i + 1, Append(acc, parts[i]))

\* filepath.Join(destPath, name)
Join(destPath, name) == CleanFrom(destPath \o name, 1, <<>>)

\* filepath.Dir
Dir(path) == IF path = <<>> THEN path ELSE SubSeq(path, 1, Len(path) - 1)

\* the path and the directories above it, below the root
Prefixes(path) == {SubSeq(path, 1, k) : k \in 1..Len(path)}

IsDir(fs, path) == path = <<>> \/ path \in fs.dirs

\* os.Stat: what is at the path, or the error
Stat(fs, path) ==
    IF IsDir(fs, path) THEN "dir"
    ELSE IF path \in fs.files THEN "file"
    ELSE IF \E q \in Prefixes(path) : q \in fs.files THEN "ENOTDIR"
    ELSE "ENOENT"

\* os.MkdirAll: the missing directories are made from the top down; an
\* ordinary file at the path or above it stops it with an error
MkdirAll(fs, path) ==
    LET blocking == {q \in Prefixes(path) : q \in fs.files}
        above(q) == {p \in Prefixes(path) : Len(p) < Len(q)}
        first == CHOOSE q \in blocking : \A p \in blocking : Len(q) <= Len(p)
    IN  IF blocking = {}
        THEN [fs |-> [fs EXCEPT !.dirs = @ \cup Prefixes(path)], err |-> Nil]
        ELSE [fs |-> [fs EXCEPT !.dirs = @ \cup above(first)],
              err |-> Errorf("mkdir: not a directory")]

\* os.Remove of an ordinary file
Remove(fs, path) == [fs EXCEPT !.files = @ \ {path}]

\* os.Create in a directory that exists
Create(fs, path) ==
    IF IsDir(fs, path)
    THEN [fs |-> fs, err |-> Errorf("open: is a directory")]
    ELSE [fs |-> [fs EXCEPT !.files = @ \cup {path}], err |-> Nil]

\* an entry of the archive
Entry(name, isDir) == [Name |-> name, IsDir |-> isDir]

\* extractFile: a directory entry is made with MkdirAll; for a file entry
\* an ordinary file at the parent directory's path is removed, the parent
\* directories are made and the file is created
extractFile(fs, destPath, file) ==
    LET destFilePath == Join(destPath, file.Name)
        destDir == Dir(destFilePath)
        unblocked == IF Stat(fs, destDir) = "file" THEN Remove(fs, destDir) ELSE fs
        made == MkdirAll(unblocked, destDir)
        created == Create(made.fs, destFilePath)
    IN  IF file.IsDir THEN MkdirAll(fs, destFilePath)
        ELSE IF made.err # Nil
        THEN [fs |-> made.fs, err |-> Wrap("failed to create directory", made.err)]
        ELSE IF created.err # Nil
        THEN [fs |-> created.fs, err |-> Wrap("failed to create file", created.err)]
        ELSE [fs |-> created.fs, err |-> Nil]

(***************************************************************************)
(* The create command (runCreate) as a state machine.                      *)
(***************************************************************************)
VARIABLES
    segs,     \* the segments the instruction string was written from
    inject,   \* the --inject flag: the instruction string
    pc,       \* where runCreate is
    parsed,   \* what parseInjectInstructions returned
    next,     \* the index i of the loop of ProcessInjectionInstructions
    disk,     \* the workspace directory
    result,   \* the error runCreate returns, Nil while there is none
    log,      \* the steps run so far, each with its outcome
    rw,       \* a document given to a rewriter, and what each call made of it
    ex        \* an archive being extracted: the file system and the entry reached

vars == <<segs, inject, pc, parsed, next, disk, result, log, rw, ex>>

\* no document is being rewritten
NoRewrite == [op |-> "none", docs |-> <<>>, appName |-> <<>>, projectDir |-> <<>>]

\* no archive is being extracted
NoExtract == [fs |-> [files |-> {}, dirs |-> {}], entries |-> <<>>, next |-> 0, err |-> Nil]

Unparsed == [err |-> NoError, instructions |-> <<>>]

\* a step of the run: its name, the 1-based number and the app name of the
\* instruction it provisions (0 and "" for the other steps), its outcome,
\* and the branches it called cloneRepo with
Step(name, k, subject, ok) ==
    [step |-> name, k |-> k, subject |-> subject, ok |-> ok, clones |-> <<>>]

\* the instruction strings of the modelled runs
RunSegments ==
    {LiteralSeg(FALSE),
     CountedSeg("*", Itoa(2), 2),
     CountedSeg("*", Itoa(0), 0),
     UrlSeg(TRUE, S_acme, S_app2, FALSE),
     InvalidSeg(S_bad)}

RunInputs == SeqsUpTo(RunSegments, MaxRunSegs)

\* AfterFetch without the early return on an error (a faulty variant)
AfterFetchIgnoringError(err) == "configure-base"

\* AfterInstruction without the early return on an error (a faulty variant)
AfterInstructionIgnoringError(err, i, n) ==
    IF i + 1 < n THEN "provision" ELSE "finalize"

\* AfterConfigure without the test of the instruction string (a faulty
\* variant: the parser is called even on the empty string)
AfterConfigureAlwaysParsing(err, injectStr) ==
    IF err # Nil THEN "failed" ELSE "parse"

\* runCreate: where control goes after each call
AfterFetch(err) == IF err # Nil THEN "failed" ELSE "configure-base"

AfterConfigure(err, injectStr) ==
    IF err # Nil THEN "failed"
    ELSE IF injectStr # <<>> THEN "parse"
    ELSE "done"

\* AfterParse going on to the finalize step when the parse failed (a faulty
\* variant)
AfterParseIgnoringError(r) ==
    IF Len(r.instructions) = 0 THEN "finalize" ELSE "provision"

AfterParse(r) ==
    IF r.err.kind = "fatal: out of memory" THEN "crashed"
    ELSE IF r.err # NoError THEN "failed"
    ELSE IF Len(r.instructions) = 0 THEN "finalize"
    ELSE "provision"

\* ProcessInjectionInstructions: where control goes after instruction i
\* (0-based) of n
AfterInstruction(err, i, n) ==
    IF err # Nil THEN "failed"
    ELSE IF i + 1 < n THEN "provision"
    ELSE "finalize"

AfterFinalize(err) == IF err # Nil THEN "failed" ELSE "done"

Init ==
    /\ segs \in RunInputs
    /\ inject = Render(segs)
    /\ pc = "fetch-base"
    /\ parsed = Unparsed
    /\ next = 0
    /\ disk = EmptyDisk
    /\ result = Nil
    /\ log = <<>>
    /\ rw = NoRewrite
    /\ ex = NoExtract

\* utils.FetchNxTemplate(ctx, owner, repo, branch, destPath)
FetchBase ==
    /\ pc = "fetch-base"
    /\ \E out \in FetchOutcomes :
          LET r == FetchNxTemplate(disk, out)
          IN  /\ disk' = r.disk
              /\ pc' = AfterFetch(r.err)
              /\ result' = IF r.err = Nil THEN Nil
                           ELSE Wrap("failed to download base template", r.err)
              /\ log' = Append(log, Step("fetch-base", 0, <<>>, r.err = Nil))
    /\ UNCHANGED <<segs, inject, parsed, next, rw, ex>>

\* utils.ConfigureMonorepo(destPath, filepath.Base(destPath))
ConfigureBase ==
    /\ pc = "configure-base"
    /\ \E fault \in ConfigureFaults :
          LET r == ConfigureMonorepo(disk, S_ws, fault)
          IN  /\ disk' = r.disk
              /\ pc' = AfterConfigure(r.err, inject)
              /\ result' = IF r.err = Nil THEN Nil
                           ELSE Wrap("failed to configure base workspace", r.err)
              /\ log' = Append(log, Step("configure-base", 0, <<>>, r.err = Nil))
    /\ UNCHANGED <<segs, inject, parsed, next, rw, ex>>

\* parseInjectInstructions(inject)
ParseInstructions ==
    /\ pc = "parse"
    /\ LET r == parseInjectInstructions(inject)
       IN  /\ parsed' = r
           /\ pc' = AfterParse(r)
           /\ result' = IF r.err = NoError THEN Nil
                        ELSE WrapWith("failed to parse inject instructions", r.err.part,
                                      Errorf(r.err.kind))
           /\ log' = Append(log, Step("parse", 0, <<>>, r.err = NoError))
    /\ UNCHANGED <<segs, inject, next, disk, rw, ex>>

\* one iteration of the loop of ProcessInjectionInstructions
ProvisionInstruction ==
    /\ pc = "provision"
    /\ LET instruction == parsed.instructions[next + 1]
       IN  \E env \in InstructionEnvs(instruction) :
              LET r == ProcessInstruction(disk, instruction, env)
              IN  /\ disk' = r.disk
                  /\ pc' = AfterInstruction(r.err, next, Len(parsed.instructions))
                  /\ next' = IF r.err = Nil THEN next + 1 ELSE next
                  /\ result' = IF r.err = Nil THEN Nil
                               ELSE Wrap("failed to process injection instructions",
                                         r.err)
                  /\ log' = Append(log,
                                   [Step("provision", next + 1, instruction.AppName,
                                         r.err = Nil) EXCEPT !.clones = r.clones])
    /\ UNCHANGED <<segs, inject, parsed, rw, ex>>

\* updateMonorepoConfig, after the loop of ProcessInjectionInstructions
FinalizeWorkspaceConfig ==
    /\ pc = "finalize"
    /\ \E fault \in FinalizeFaults :
          LET r == updateMonorepoConfig(disk, parsed.instructions, fault)
          IN  /\ disk' = r.disk
              /\ pc' = AfterFinalize(r.err)
              /\ result' = IF r.err = Nil THEN Nil
                           ELSE Wrap("failed to process injection instructions",
                                     Wrap("failed to update monorepo configuration",
                                          r.err))
              /\ log' = Append(log, Step("finalize", 0, <<>>, r.err = Nil))
    /\ UNCHANGED <<segs, inject, parsed, next, rw, ex>>

Next ==
    \/ FetchBase
    \/ ConfigureBase
    \/ ParseInstructions
    \/ ProvisionInstruction
    \/ FinalizeWorkspaceConfig

Spec == Init /\ [][Next]_vars

(***************************************************************************)
(* The parser alone, over a wider set of instruction strings.              *)
(***************************************************************************)
InitParse ==
    /\ segs \in ParseInputs
    /\ inject = Render(segs)
    /\ pc = "call-parse"
    /\ parsed = Unparsed
    /\ next = 0
    /\ disk = EmptyDisk
    /\ result = Nil
    /\ log = <<>>
    /\ rw = NoRewrite
    /\ ex = NoExtract

\* a call of parseInjectInstructions(inject)
CallParse ==
    /\ pc = "call-parse"
    /\ parsed' = parseInjectInstructions(inject)
    /\ pc' = "parse-returned"
    /\ UNCHANGED <<segs, inject, next, disk, result, log, rw, ex>>

NextParse == CallParse

SpecParse == InitParse /\ [][NextParse]_vars

(***************************************************************************)
(* The rewriters called on their own, once and then again on their own     *)
(* output.                                                                 *)
(***************************************************************************)
S_shop == <<"s", "h", "o", "p">>
S_appPlain == <<"a", "p", "p">>
S_myApp2 == <<"m", "y", "-", "a", "p", "p", "-", "2">>
S_web == <<"w", "e", "b">>
S_old == <<"o", "l", "d">>
S_lodash == <<"l", "o", "d", "a", "s", "h">>
S_eslintPluginReact == <<"e", "s", "l", "i", "n", "t", "-", "p", "l", "u", "g", "i", "n", "-", "r", "e", "a", "c", "t">>
P_distMyApp == <<"d", "i", "s", "t", "/", "a", "p", "p", "s", "/", "m", "y", "-", "a", "p", "p">>
P_myappMain == <<"a", "p", "p", "s", "/", "m", "y", "a", "p", "p", "/", "s", "r", "c", "/", "m", "a", "i", "n", ".", "t", "s", "x">>
P_distMyMyApp == <<"d", "i", "s", "t", "/", "m", "y", "-", "m", "y", "-", "a", "p", "p">>
P_templateIndex == <<"t", "e", "m", "p", "l", "a", "t", "e", "-", "a", "p", "p", "/", "i", "n", "d", "e", "x", ".", "h", "t", "m", "l">>
P_nxAppTsConfig == <<"n", "x", "-", "a", "p", "p", "/", "t", "s", "c", "o", "n", "f", "i", "g", ".", "j", "s", "o", "n">>
P_distWeb == <<"d", "i", "s", "t", "/", "a", "p", "p", "s", "/", "w", "e", "b">>
P_srcRoot == <<"a", "p", "p", "s", "/", "m", "y", "-", "a", "p", "p", "/", "s", "r", "c">>
P_src == <<"s", "r", "c">>
P_buildTarget == <<"m", "y", "-", "a", "p", "p", ":", "b", "u", "i", "l", "d">>

\* app names (for updateSingleProjectJson, the workspace name) and the
\* directory of a project
RewriteAppNames == {S_shop, S_appPlain, S_myApp2}
RewriteProjectDirs == {S_web}

\* the manifests an imported repository may hold
ManifestInputs ==
    {Manifest(name, private, scripts, dependencies, keys) :
        name \in {Absent, StrVal(S_old)},
        private \in {"absent", "false", "true"},
        scripts \in {NoObject, NotAnObject, KeySet({}),
                     KeySet({"start", "build", "storybook"}), KeySet({"storybook"})},
        dependencies \in {NoObject, NotAnObject}
            \cup {KeySet(deps) :
                    deps \in SUBSET {S_react, S_lodash, S_vitest,
                                     S_eslintPluginReact, S_typesNode}},
        keys \in {{}, {"version"}, {"version", "devDependencies", "type"},
                  ManagedKeys}}

\* the values a path field may hold
PathValues ==
    {OtherVal} \cup {StrVal(p) : p \in {P_distMyApp, P_myappMain, P_distMyMyApp,
                                         P_templateIndex, P_nxAppTsConfig,
                                         P_distWeb}}

\* the options of a target or of one of its configurations
OptionsInputs ==
    {NoOptions, OtherOptions}
        \cup {Options([f \in {"outputPath", "buildTarget"} |->
                          IF f = "outputPath" THEN v ELSE StrVal(P_buildTarget)]) :
                v \in PathValues}

ConfigurationsInputs ==
    {NoConfigurations, OtherConfigurations}
        \cup {Configurations([c \in {"production"} |-> o]) : o \in OptionsInputs}

TargetsInputs ==
    {NoTargets, OtherTargets}
        \cup {Targets([t \in {"build"} |-> Target(o, c)]) :
                o \in OptionsInputs, c \in ConfigurationsInputs}

\* the descriptors a generated application may hold
DescriptorInputs ==
    {Descriptor(StrVal(S_old), sourceRoot, targets) :
        sourceRoot \in {Absent, OtherVal, StrVal(P_srcRoot), StrVal(P_src)},
        targets \in TargetsInputs}

InitRewrite ==
    /\ segs = <<>>
    /\ inject = <<>>
    /\ pc = "rewrite"
    /\ parsed = Unparsed
    /\ next = 0
    /\ disk = EmptyDisk
    /\ result = Nil
    /\ log = <<>>
    /\ ex = NoExtract
    /\ \/ \E doc \in ManifestInputs, appName \in RewriteAppNames :
              rw = [op |-> "manifest", docs |-> <<doc>>, appName |-> appName,
                    projectDir |-> <<>>]
       \/ \E doc \in DescriptorInputs, appName \in RewriteAppNames,
                projectDir \in RewriteProjectDirs :
              rw = [op |-> "descriptor", docs |-> <<doc>>, appName |-> appName,
                    projectDir |-> projectDir]

\* the document as the last call left it
Current == rw.docs[Len(rw.docs)]

\* a call of updateImportedPackageJSON(packageJSONPath, appName)
NormalizeImportedManifest ==
    /\ pc = "rewrite"
    /\ rw.op = "manifest"
    /\ Len(rw.docs) < 3
    /\ rw' = [rw EXCEPT !.docs = Append(@, updateImportedPackageJSON(Current, rw.appName))]
    /\ UNCHANGED <<segs, inject, pc, parsed, next, disk, result, log, ex>>

\* a call of updateSingleProjectJson(projectJsonPath, appName, projectDir)
RewriteAppDescriptor ==
    /\ pc = "rewrite"
    /\ rw.op = "descriptor"
    /\ Len(rw.docs) < 3
    /\ rw' = [rw EXCEPT !.docs = Append(@, updateSingleProjectJson(Current, rw.appName,
                                                                  rw.projectDir))]
    /\ UNCHANGED <<segs, inject, pc, parsed, next, disk, result, log, ex>>

NextRewrite ==
    \/ NormalizeImportedManifest
    \/ RewriteAppDescriptor

SpecRewrite == InitRewrite /\ [][NextRewrite]_vars

(***************************************************************************)
(* Properties of a run of create, checked under Spec.                      *)
(***************************************************************************)
Instructions == parsed.instructions

\* the steps of a run that provisions n instructions, in order
ExpectedSteps(n) ==
    <<"fetch-base", "configure-base", "parse">>
        \o [k \in 1..n |-> "provision"] \o <<"finalize">>

\* C1: the steps of every run occur in the order fetch-base, configure-base,
\* (the parse,) provisioning of instruction 1..n in list order,
\* finalize-workspace-config; a step has started only if every step before
\* it succeeded, so finalize has started only after all n instructions were
\* provisioned.
StepsInOrder ==
    /\ Len(log) <= Len(ExpectedSteps(Len(Instructions)))
    /\ \A j \in 1..Len(log) :
          /\ log[j].step = ExpectedSteps(Len(Instructions))[j]
          /\ j < Len(log) => log[j].ok
          /\ log[j].step = "provision" =>
                /\ log[j].k = j - 3
                /\ log[j].subject = Instructions[j - 3].AppName
          /\ log[j].step = "finalize" =>
                \A k \in 1..Len(Instructions) :
                    log[3 + k].step = "provision" /\ log[3 + k].ok

\* a run that provisioned two or more instructions and finalized
StepsInOrderWitness ==
    /\ pc = "done"
    /\ Len(Instructions) >= 2
    /\ log[Len(log)].step = "finalize"

\* the message runCreate, or ProcessInjectionInstructions under it, wraps the
\* error of a step in
StepMessages(e) ==
    CASE e.step = "fetch-base" -> <<"failed to download base template">>
      [] e.step = "configure-base" -> <<"failed to configure base workspace">>
      [] e.step = "parse" -> <<"failed to parse inject instructions">>
      [] e.step = "provision" ->
            <<"failed to process injection instructions",
              IF Instructions[e.k].Type = "create-new"
              THEN "failed to create new React app"
              ELSE "failed to import repo">>
      [] OTHER ->
            <<"failed to process injection instructions",
              "failed to update monorepo configuration">>

\* C2: when a step fails the run ends failed, the error returned is that
\* step's error (its message, and for an instruction the name or URL of that
\* instruction), and no step runs after it: the failed step is the last of
\* the log.  A run that has not failed has returned no error.
FirstFailureAborts ==
    /\ \A j \in 1..Len(log) : ~log[j].ok => (j = Len(log) /\ pc = "failed")
    /\ pc # "failed" => result = Nil
    /\ pc = "failed" =>
          LET e == log[Len(log)]
              msgs == StepMessages(e)
          IN  /\ ~e.ok
              /\ Len(result.chain) > Len(msgs)
              /\ SubSeq(result.chain, 1, Len(msgs)) = msgs
              /\ e.step = "provision" =>
                    result.subject =
                        IF Instructions[e.k].Type = "create-new"
                        THEN Instructions[e.k].AppName
                        ELSE Instructions[e.k].RepoURL

\* a run whose second instruction failed, with a third one never started
FirstFailureAbortsWitness ==
    /\ pc = "failed"
    /\ log[Len(log)].step = "provision"
    /\ log[Len(log)].k = 2
    /\ Len(Instructions) >= 3

\* the files and workspace documents of the disk are left exactly as they
\* were by a step
LeftExactly ==
    /\ disk.files \subseteq disk'.files
    /\ disk.dirs \subseteq disk'.dirs
    /\ disk'.pkg = disk.pkg
    /\ disk'.nx = disk.nx
    /\ disk'.tree = disk.tree
    /\ disk.appsDir => disk'.appsDir

\* C3 as stated: when the provisioning of instruction k fails, everything
\* the earlier steps wrote is on disk exactly as they wrote it.
FailureLeavesEarlierWrites ==
    [][(pc = "provision" /\ pc' = "failed") => LeftExactly]_vars

\* C3, amended: when the provisioning of instruction k fails, nothing the
\* earlier steps wrote is removed, the workspace documents and every
\* application directory not named like instruction k are exactly as the
\* earlier steps wrote them; files of an earlier directory that has
\* instruction k's app name may have been overwritten.
FailureRemovesNothing ==
    [][(pc = "provision" /\ pc' = "failed") =>
          LET appName == Instructions[next + 1].AppName
          IN  /\ \A f \in disk.files :
                    /\ f.app # appName => f \in disk'.files
                    /\ Exists(disk', f.app, f.file)
              /\ disk.dirs \subseteq disk'.dirs
              /\ disk'.pkg = disk.pkg
              /\ disk'.nx = disk.nx
              /\ disk'.tree = disk.tree
              /\ disk.appsDir => disk'.appsDir]_vars

\* a run that failed at its second or a later instruction, with the files of
\* the earlier ones on disk
FailureRemovesNothingWitness ==
    /\ pc = "failed"
    /\ log[Len(log)].step = "provision"
    /\ log[Len(log)].k >= 2
    /\ \E f \in disk.files : f.app = Instructions[1].AppName

InstructionNames == {Instructions[k].AppName : k \in 1..Len(Instructions)}

\* C4: after a successful run with a non-empty instruction string, apps/
\* holds as many application directories as there are instructions, one
\* named after each, and the scripts of the root manifest name every
\* instruction's app.
OneDirectoryPerInstruction ==
    (pc = "done" /\ inject # <<>>) =>
        /\ Cardinality(disk.dirs) = Len(Instructions)
        /\ InstructionNames \subseteq disk.dirs
        /\ \A k \in 1..Len(Instructions) :
              \A v \in 1..Len(AppVerbs) :
                  <<AppKey(AppVerbs[v], Instructions[k].AppName),
                    AppCommand(AppVerbs[v], Instructions[k].AppName)>>
                      \in disk.pkg.scripts

(***************************************************************************)
(* Properties of the parser, checked under SpecParse.                      *)
(***************************************************************************)
\* a natural number too large for TLC's integers: five 16-bit limbs, least
\* significant first
Num(n) == <<n % LimbBase, n \div LimbBase, 0, 0, 0>>
MaxIntNum == <<LimbBase - 1, LimbBase - 1, LimbBase - 1, SignLimb - 1, 0>>

AddNum(x, y) ==
    LET t1 == x[1] + y[1]
        t2 == x[2] + y[2] + (t1 \div LimbBase)
        t3 == x[3] + y[3] + (t2 \div LimbBase)
        t4 == x[4] + y[4] + (t3 \div LimbBase)
        t5 == x[5] + y[5] + (t4 \div LimbBase)
    IN  <<t1 % LimbBase, t2 % LimbBase, t3 % LimbBase, t4 % LimbBase, t5>>

\* a segment the grammar accepts: a placeholder whose count is an integer of
\* the machine, or a URL
WellFormedSeg(g) == g.kind \in {"literal", "url"} \/ (g.kind = "counted" /\ g.n # -2)
WellFormed(gs) == gs # <<>> /\ \A j \in 1..Len(gs) : WellFormedSeg(gs[j])

\* the number N written in a counted placeholder
CountOf(g) == IF g.n = -1 THEN MaxIntNum ELSE Num(g.n)

\* the number of instructions the grammar gives a segment
ExpectedCount(g) ==
    IF g.kind # "counted" THEN Num(1)
    ELSE IF g.op = "+" THEN AddNum(CountOf(g), Num(1))
    ELSE CountOf(g)

RECURSIVE ExpectedTotal(_)
ExpectedTotal(gs) ==
    IF gs = <<>> THEN Num(0)
    ELSE AddNum(ExpectedCount(gs[1]), ExpectedTotal(Tail(gs)))

\* the kinds the grammar gives the segments, when every count is small
RECURSIVE ExpectedKinds(_)
ExpectedKinds(gs) ==
    IF gs = <<>> THEN <<>>
    ELSE (IF gs[1].kind = "url" THEN <<"import-repo">>
          ELSE [k \in 1..ExpectedCount(gs[1])[1] |-> "create-new"])
            \o ExpectedKinds(Tail(gs))

Returned == pc = "parse-returned"

\* C5: for every well-formed instruction string the parse succeeds and the
\* number of instructions is the sum over the segments of 1 for {create-new},
\* N for {create-new*N}, N+1 for {create-new+N} and 1 for a URL, with the
\* kinds in segment order.
CountIsSumOfSegments ==
    (Returned /\ WellFormed(segs)) =>
        /\ parsed.err = NoError
        /\ Num(Len(Instructions)) = ExpectedTotal(segs)
        /\ (\A j \in 1..Len(segs) : segs[j].n >= 0) =>
              [k \in 1..Len(Instructions) |-> Instructions[k].Type]
                  = ExpectedKinds(segs)

\* the number of instructions the first j segments of the string produced
\* (the loop over the segments handles them left to right)
Produced(j) ==
    IF j = 0 THEN 0
    ELSE Len(parseInjectInstructions(Render(SubSeq(segs, 1, j))).instructions)

\* C6: the instruction of a literal {create-new} segment is named app-<p>,
\* p its 1-based position in the list of instructions returned.
LiteralNamedByPosition ==
    (Returned /\ WellFormed(segs)) =>
        \A j \in 1..Len(segs) :
            segs[j].kind = "literal" =>
                Instructions[Produced(j)].AppName = S_app \o Itoa(Produced(j))

\* C7: the t-th instruction of a counted placeholder is named app-<c+t>, c
\* the number of instructions the earlier segments produced.
CountedNamedByRunningTotal ==
    (Returned /\ WellFormed(segs)) =>
        \A j \in 1..Len(segs) :
            segs[j].kind = "counted" =>
                \A t \in 1..(Produced(j) - Produced(j - 1)) :
                    /\ Instructions[Produced(j - 1) + t].Type = "create-new"
                    /\ Instructions[Produced(j - 1) + t].AppName
                          = S_app \o Itoa(Produced(j - 1) + t)

\* a counted placeholder expanding to two or more instructions after
\* segments that produced a number of instructions other than their own
\* number
CountedNamedByRunningTotalWitness ==
    /\ Returned
    /\ WellFormed(segs)
    /\ \E j \in 2..Len(segs) :
          /\ segs[j].kind = "counted"
          /\ Produced(j) - Produced(j - 1) >= 2
          /\ Produced(j - 1) \notin {0, j - 1}

\* C8: for a string of {create-new} and counted segments the app names of
\* the instructions returned are pairwise distinct.
NamesDistinct ==
    (Returned /\ WellFormed(segs)
        /\ \A j \in 1..Len(segs) : segs[j].kind \in {"literal", "counted"}) =>
        \A a, b \in 1..Len(Instructions) :
            a # b => Instructions[a].AppName # Instructions[b].AppName

\* C9: the import of a GitHub URL ending in /owner/repo or /owner/repo.git
\* is named after the whole of repo.
ImportNamedAfterRepo ==
    (Returned /\ WellFormed(segs)) =>
        \A j \in 1..Len(segs) :
            (segs[j].kind = "url" /\ segs[j].github) =>
                /\ Instructions[Produced(j)].Type = "import-repo"
                /\ Instructions[Produced(j)].AppName = segs[j].repo

\* C10: the import of a URL that yields no repository name is named
\* imported-app-<s>, s the 1-based number of its segment.
FallbackNamedBySegment ==
    (Returned /\ WellFormed(segs)) =>
        \A j \in 1..Len(segs) :
            (segs[j].kind = "url" /\ ~segs[j].github) =>
                /\ Instructions[Produced(j)].Type = "import-repo"
                /\ Instructions[Produced(j)].RepoURL = RenderSeg(segs[j])
                /\ Instructions[Produced(j)].AppName = S_importedApp \o Itoa(j)

\* such a URL as the second segment, after a segment that produced no
\* instruction or more than one
FallbackNamedBySegmentWitness ==
    /\ Returned
    /\ WellFormed(segs)
    /\ \E j \in 2..Len(segs) :
          /\ segs[j].kind = "url"
          /\ ~segs[j].github
          /\ Produced(j - 1) # j - 1

\* the first segment of the string that is none of the three forms, 0 when
\* there is none
FirstInvalid ==
    IF \E j \in 1..Len(segs) : segs[j].kind = "invalid"
    THEN Min({j \in 1..Len(segs) : segs[j].kind = "invalid"})
    ELSE 0

\* C11: when a segment is none of {create-new}, a counted placeholder or an
\* http URL (an empty or blank segment included) and the segments before it
\* are valid, the parse returns the error "invalid injection instruction"
\* carrying that segment, trimmed, and no instruction at all.
InvalidSegmentRejected ==
    (Returned /\ FirstInvalid > 0
        /\ \A j \in 1..(FirstInvalid - 1) : WellFormedSeg(segs[j])) =>
        /\ parsed.err = ParseError("invalid injection instruction",
                                   TrimSpace(RenderSeg(segs[FirstInvalid])))
        /\ Instructions = <<>>

\* an invalid segment after a segment that had produced instructions
InvalidSegmentRejectedWitness ==
    /\ Returned
    /\ FirstInvalid > 1
    /\ \A j \in 1..(FirstInvalid - 1) : WellFormedSeg(segs[j])
    /\ Produced(FirstInvalid - 1) >= 2
    /\ parsed.err.kind = "invalid injection instruction"

InitCreateOrParse == Init \/ InitParse

NextCreateOrParse == Next \/ NextParse

SpecCreateOrParse == InitCreateOrParse /\ [][NextCreateOrParse]_vars

\* a state of a run of create (not of a call of the parser on its own)
InRun == pc \notin {"call-parse", "parse-returned"}

\* C13: a run whose instruction string is empty never calls the parser, the
\* provisioning or the finalize step, and ends successfully once
\* configure-base has succeeded; the parser called on the empty string or
\* on a string of white space returns an error and no instruction.
EmptyStringSkipsParser ==
    /\ (InRun /\ inject = <<>>) =>
          /\ pc \notin {"parse", "provision", "finalize", "crashed"}
          /\ \A j \in 1..Len(log) : log[j].step \in {"fetch-base", "configure-base"}
          /\ parsed = Unparsed
          /\ (Len(log) = 2 /\ log[2].ok) => (pc = "done" /\ result = Nil)
    /\ (Returned /\ TrimSpace(inject) = <<>>) =>
          /\ parsed.err # NoError
          /\ Instructions = <<>>

\* a run with the empty instruction string that ended successfully after
\* configure-base
EmptyStringSkipsParserWitness ==
    /\ InRun
    /\ inject = <<>>
    /\ pc = "done"
    /\ Len(log) = 2
    /\ log[2].step = "configure-base"
    /\ disk.pkg.name = S_ws

(***************************************************************************)
(* Properties of the provisioning of one instruction, checked under Spec.  *)
(***************************************************************************)
\* the instruction the loop of ProcessInjectionInstructions is about to
\* provision
AtInstruction(type) == pc = "provision" /\ Instructions[next + 1].Type = type

\* an environment in which a directory creation or a file write fails
FilesystemFault(env) == ~env.mkdirApps \/ env.fault # "none"

\* the manual scaffold is what wrote apps/<appName>
Scaffolded(d, appName) ==
    /\ appName \in d.dirs
    /\ \A n \in TemplateFiles : File(appName, n, "template") \in d.files

\* C14: a create-new instruction fails only when a directory creation or a
\* file write fails; when the generator fails, or runs and leaves no
\* directory, and nothing of the filesystem fails, the instruction succeeds
\* with the eight template files under apps/<app-name>.
CreateFailsOnlyOnFilesystemError ==
    AtInstruction("create-new") =>
        \A env \in CreateEnvs :
            LET appName == Instructions[next + 1].AppName
                r == ProcessInstruction(disk, Instructions[next + 1], env)
            IN  /\ r.err # Nil => FilesystemFault(env)
                /\ (~FilesystemFault(env)
                      /\ (env.gen = "failed"
                            \/ (env.gen = "ok-nothing" /\ appName \notin disk.dirs))) =>
                      /\ r.err = Nil
                      /\ Scaffolded(r.disk, appName)

\* a create-new instruction was provisioned successfully by the manual
\* scaffold
CreateFailsOnlyOnFilesystemErrorWitness ==
    /\ InRun
    /\ Len(log) >= 4
    /\ log[Len(log)].step = "provision"
    /\ log[Len(log)].ok
    /\ Instructions[log[Len(log)].k].Type = "create-new"
    /\ Scaffolded(disk, log[Len(log)].subject)

\* whether the clone of a branch fails, from the disk d
CloneFails(d, instruction, env, available) ==
    cloneRepo(d, instruction.AppName, env.repo, available).err # Nil

\* the order of the clone attempts: main first, master if and only if main
\* failed, never a third
ClonesInOrder(d, instruction, env) ==
    LET r == ProcessInstruction(d, instruction, env)
    IN  /\ Len(r.clones) \in {1, 2}
        /\ r.clones[1] = "main"
        /\ Len(r.clones) = 2 <=> CloneFails(d, instruction, env, env.main)
        /\ Len(r.clones) = 2 => r.clones[2] = "master"

BothClonesFail(d, instruction, env) ==
    /\ CloneFails(d, instruction, env, env.main)
    /\ CloneFails(d, instruction, env, env.master)

\* C15 as stated: main is cloned first, master if and only if that failed,
\* never a third time, and the instruction fails if and only if both clones
\* fail.
ImportFailsIffBothClonesFail ==
    AtInstruction("import-repo") =>
        \A env \in ImportEnvs :
            /\ ClonesInOrder(disk, Instructions[next + 1], env)
            /\ ProcessInstruction(disk, Instructions[next + 1], env).err # Nil
                  <=> BothClonesFail(disk, Instructions[next + 1], env)

\* C15, amended: main is cloned first, master if and only if that failed,
\* never a third time; the instruction fails with "failed to clone
\* repository" if and only if both clones fail, and when a clone succeeded it
\* fails only if the conversion that follows fails.
ImportFailsAtCloneIffBothClonesFail ==
    AtInstruction("import-repo") =>
        \A env \in ImportEnvs :
            LET r == ProcessInstruction(disk, Instructions[next + 1], env)
                both == BothClonesFail(disk, Instructions[next + 1], env)
            IN  /\ ClonesInOrder(disk, Instructions[next + 1], env)
                /\ both => r.err # Nil
                /\ (r.err # Nil /\ r.err.chain[2] = "failed to clone repository")
                      <=> both
                /\ (r.err # Nil /\ ~both) =>
                      /\ r.err.chain[2] = "failed to convert to Nx project"
                      /\ env.fault # "none"

\* an import that succeeded on the secondary branch after the primary failed
ImportFailsAtCloneIffBothClonesFailWitness ==
    /\ InRun
    /\ \E j \in 1..Len(log) :
          /\ log[j].step = "provision"
          /\ log[j].ok
          /\ log[j].clones = <<"main", "master">>

\* C16: whether the removal of .git and the removal of the conflicting
\* files succeed, and whether any conflicting file is there at all, makes no
\* difference to the outcome of an import: it returns the same error, or
\* none, either way.
RemovalsNeverFailImport ==
    AtInstruction("import-repo") =>
        \A env \in ImportEnvs :
            \A g, c \in BOOLEAN :
                \A repo \in RepoContents :
                    ProcessInstruction(disk, Instructions[next + 1], env).err
                        = ProcessInstruction(
                              disk, Instructions[next + 1],
                              [env EXCEPT !.gitRemoved = g, !.conflictsRemoved = c,
                                          !.repo = repo]).err

\* an import that succeeded although neither .git nor a conflicting file of
\* the clone could be removed
RemovalsNeverFailImportWitness ==
    /\ InRun
    /\ \E j \in 1..Len(log) :
          /\ log[j].step = "provision"
          /\ log[j].ok
          /\ File(log[j].subject, ".git", "cloned") \in disk.files
          /\ File(log[j].subject, "webpack.config.js", "cloned") \in disk.files

\* C17: an import whose cloned tree holds a project.json leaves that file as
\* it was cloned; the conversion writes a project.json only into a tree that
\* has none.
ExistingDescriptorKept ==
    AtInstruction("import-repo") =>
        \A env \in ImportEnvs :
            LET appName == Instructions[next + 1].AppName
                r == ProcessInstruction(disk, Instructions[next + 1], env)
            IN  r.err = Nil =>
                    IF "project.json" \in env.repo
                    THEN File(appName, "project.json", "cloned") \in r.disk.files
                    ELSE File(appName, "project.json", "converted") \in r.disk.files

(***************************************************************************)
(* Properties of the rewriters, checked under SpecRewrite.                 *)
(***************************************************************************)
\* the rewriter `op` has been called n times
Applied(op, n) == rw.op = op /\ Len(rw.docs) = n + 1

\* C18: updateImportedPackageJSON applied to its own output leaves it as it
\* is: the document after two calls is the document after one.
NormalizeManifestIdempotent ==
    Applied("manifest", 2) => rw.docs[3] = rw.docs[2]

\* two calls on a manifest the first call changed in every way: name,
\* private, a conflicting script, a build-tool dependency and a managed key
NormalizeManifestIdempotentWitness ==
    /\ Applied("manifest", 2)
    /\ rw.docs[1].name # rw.docs[2].name
    /\ rw.docs[1].private # rw.docs[2].private
    /\ rw.docs[1].scripts.keys # rw.docs[2].scripts.keys
    /\ rw.docs[2].scripts.keys # {}
    /\ S_eslintPluginReact \in rw.docs[1].dependencies.keys
    /\ rw.docs[2].dependencies.keys = {S_react}
    /\ rw.docs[1].keys # rw.docs[2].keys

\* the strings held by the path fields of an options object
PathStringsOf(options) ==
    IF options.kind # "object" THEN {}
    ELSE {options.fields[f].str :
            f \in {g \in DOMAIN options.fields \cap PathFields :
                      options.fields[g].kind = "string"}}

\* the strings held by the path fields of the options of every target of a
\* descriptor and of every configuration of a target
PathStrings(doc) ==
    IF doc.targets.kind # "object" THEN {}
    ELSE UNION {
            PathStringsOf(doc.targets.targets[t].options)
                \cup (IF doc.targets.targets[t].configurations.kind # "object"
                      THEN {}
                      ELSE UNION {PathStringsOf(
                                      doc.targets.targets[t].configurations.configs[c]) :
                                    c \in DOMAIN
                                        doc.targets.targets[t].configurations.configs}) :
            t \in DOMAIN doc.targets.targets}

\* C19: after updateSingleProjectJson none of my-app, myapp, template-app,
\* nx-app occurs in a path field of the options of a target or of one of its
\* configurations.
NoTemplateNameLeft ==
    (rw.op = "descriptor" /\ Len(rw.docs) >= 2) =>
        \A p \in PathStrings(rw.docs[2]) :
            \A k \in 1..Len(TemplateNames) : ~Contains(p, TemplateNames[k])

\* C20: updateSingleProjectJson applied to its own output leaves it as it
\* is: the document after two calls is the document after one.
RewriteDescriptorIdempotent ==
    Applied("descriptor", 2) => rw.docs[3] = rw.docs[2]

(***************************************************************************)
(* The place of the parse in a run, checked under Spec.                    *)
(***************************************************************************)
\* C29: the parser is called only as the third step, after fetch-base and
\* configure-base succeeded; when it rejects the instruction string the run
\* fails with the parse error, the fetched and configured workspace is on
\* disk, no instruction was provisioned (no application directory exists)
\* and finalize never ran.
ParseFailsAfterBase ==
    /\ \A j \in 1..Len(log) :
          log[j].step = "parse" =>
              /\ j = 3
              /\ log[1].step = "fetch-base" /\ log[1].ok
              /\ log[2].step = "configure-base" /\ log[2].ok
    /\ (InRun /\ Len(log) >= 3 /\ ~log[3].ok) =>
          /\ pc = "failed"
          /\ Len(log) = 3
          /\ result.chain[1] = "failed to parse inject instructions"
          /\ Instructions = <<>>
          /\ disk.tree = "full"
          /\ disk.pkg.state = "ok" /\ disk.pkg.name = S_ws
          /\ disk.nx.state = "ok" /\ disk.nx.configured
          /\ disk.dirs = {} /\ disk.files = {}

\* a run that failed in the parse of a string whose first segment is valid
\* and whose second is not
ParseFailsAfterBaseWitness ==
    /\ InRun
    /\ pc = "failed"
    /\ Len(log) = 3
    /\ log[3].step = "parse"
    /\ Len(segs) = 2
    /\ segs[1].kind # "invalid"
    /\ segs[2].kind = "invalid"


\* C26: whenever the template download gets a non-2xx response,
\* FetchNxTemplate returns an error, nothing of the response body is
\* extracted under the destination, and configure-base is not started
NonSuccessResponses == {out \in FetchOutcomes : out.kind # "get-error" /\ out.status # "200 OK"}

NonSuccessResponseIsFetchError ==
    (InRun /\ pc = "fetch-base") =>
        \A out \in NonSuccessResponses :
            LET r == FetchNxTemplate(disk, out)
            IN  /\ r.err # Nil
                /\ r.disk = disk
                /\ AfterFetch(r.err) # "configure-base"

\* C28: configure-base succeeds on a fetched workspace that has neither a
\* root manifest nor a task-runner config: both documents are there
\* afterwards, named and configured, and no error is returned
BareTree == disk.tree = "full" /\ disk.pkg.state = "absent" /\ disk.nx.state = "absent"

ConfigureSucceedsOnBareTree ==
    (InRun /\ pc = "configure-base" /\ BareTree) =>
        LET r == ConfigureMonorepo(disk, S_ws, "none")
        IN  /\ r.err = Nil
            /\ r.disk.pkg.state = "ok" /\ r.disk.pkg.name = S_ws
            /\ r.disk.nx.state = "ok" /\ r.disk.nx.configured

\* a dependency key that names a build tool
NamesBuildTool(dep) == \E tool \in BuildTools : Contains(dep, tool)

\* C23: after updateImportedPackageJSON the name is the app name, private is
\* true, none of the eight conflicting script keys and no dependency key
\* containing a build-tool name remains, devDependencies, eslintConfig,
\* browserslist, homepage and type are absent, and every other script,
\* dependency and top-level key is as it was
ManifestNormalized ==
    (rw.op = "manifest" /\ Len(rw.docs) >= 2) =>
        LET before == rw.docs[1]
            after == rw.docs[2]
        IN  /\ after.name = StrVal(rw.appName)
            /\ after.private = "true"
            /\ after.scripts.kind = before.scripts.kind
            /\ after.scripts.keys \cap ConflictingScripts = {}
            /\ \A key \in (before.scripts.keys \cup after.scripts.keys) \ ConflictingScripts :
                   key \in before.scripts.keys /\ key \in after.scripts.keys
            /\ after.dependencies.kind = before.dependencies.kind
            /\ \A dep \in after.dependencies.keys : ~NamesBuildTool(dep)
            /\ \A dep \in before.dependencies.keys \cup after.dependencies.keys :
                   ~NamesBuildTool(dep) =>
                       dep \in before.dependencies.keys /\ dep \in after.dependencies.keys
            /\ after.keys \cap ManagedKeys = {}
            /\ \A key \in (before.keys \cup after.keys) \ ManagedKeys :
                   key \in before.keys /\ key \in after.keys

\* a call on a manifest with a conflicting and another script, a build-tool
\* and another dependency, and a managed and another top-level key
ManifestNormalizedWitness ==
    /\ Applied("manifest", 1)
    /\ rw.docs[1].name # StrVal(rw.appName)
    /\ rw.docs[1].private = "false"
    /\ rw.docs[1].scripts = KeySet({"start", "build", "storybook"})
    /\ {S_react, S_vitest, S_eslintPluginReact} \subseteq rw.docs[1].dependencies.keys
    /\ rw.docs[1].keys = {"version", "devDependencies", "type"}
    /\ rw.docs[2].scripts = KeySet({"storybook"})
    /\ S_react \in rw.docs[2].dependencies.keys
    /\ rw.docs[2].keys = {"version"}

(***************************************************************************)
(* The rewriters of the workspace documents called on their own: a        *)
(* document is drawn, then one rewriter is called on it up to twice, each  *)
(* call with its own outcome of the write.  rw.docs holds the document as  *)
(* given and after each call, rw.calls what each call came to.             *)
(***************************************************************************)
S_app1 == S_app \o <<"1">>

ConfigInstructions ==
    {<<>>,
     <<InjectionInstruction("create-new", <<>>, S_app1)>>,
     <<InjectionInstruction("import-repo", S_https, S_shop),
       InjectionInstruction("create-new", <<>>, S_app1)>>}

ConfigAppNames == {S_ws, S_shop}

\* root manifests: absent, unparsable, and objects whose scripts are absent,
\* an object (empty, with a script of the workspace's own, with scripts the
\* rewriter sets anew) or a value of another type
RootManifestInputs ==
    {NoDoc, BadDoc}
        \cup {[Doc(S_old, scripts) EXCEPT !.keys = keys] :
                scripts \in {{}, {<<S_start, NxCommand(S_serve)>>},
                             {<<S_start, NxCommand(S_serve)>>, <<S_build, S_old>>,
                              <<AppKey(S_lint, S_app1), S_old>>}},
                keys \in {{}, {"version"}}}
        \cup {[Doc(S_old, {}) EXCEPT !.scriptsKind = kind, !.keys = {"version"}] :
                kind \in {"absent", "other"}}

\* task-runner configs: absent, unparsable, and objects with and without a
\* default project and plugins
NxConfigInputs ==
    {NoDoc, BadDoc}
        \cup {[TemplateNx EXCEPT !.defaultProject = project, !.plugins = plugins,
                                 !.keys = {"targetDefaults"}] :
                project \in {Absent, StrVal(S_old), OtherVal},
                plugins \in {NoPlugins, OtherPlugins, Plugins(<<>>),
                             Plugins(<<PluginString(S_nxReactPlugin)>>),
                             Plugins(<<PluginObject(S_nxVitePlugin)>>),
                             Plugins(<<PluginString(S_nxEslintPlugin),
                                       PluginObject(S_nxReactRouterPlugin)>>)}}

ConfigCall(op, doc, appName, instructions) ==
    [op |-> op, docs |-> <<doc>>, appName |-> appName, instructions |-> instructions,
     calls |-> <<>>]

InitConfig ==
    /\ segs = <<>>
    /\ inject = <<>>
    /\ pc = "rewrite"
    /\ parsed = Unparsed
    /\ next = 0
    /\ disk = EmptyDisk
    /\ result = Nil
    /\ log = <<>>
    /\ ex = NoExtract
    /\ \/ \E doc \in RootManifestInputs, appName \in ConfigAppNames :
              rw = ConfigCall("name", doc, appName, <<>>)
       \/ \E doc \in RootManifestInputs, instructions \in ConfigInstructions :
              rw = ConfigCall("root-scripts", doc, <<>>, instructions)
       \/ \E doc \in NxConfigInputs, instructions \in ConfigInstructions :
              rw = ConfigCall("register", doc, <<>>, instructions)
       \/ \E doc \in NxConfigInputs, appName \in ConfigAppNames :
              rw = ConfigCall("react-plugin", doc, appName, <<>>)

\* a further call of `op` can be made: the process has not panicked
CanCall(op) ==
    /\ pc = "rewrite"
    /\ rw.op = op
    /\ Len(rw.docs) < 3
    /\ \A j \in 1..Len(rw.calls) : ~rw.calls[j].panic

\* the call has come to `r` with the write outcome `write`
Called(r, write) ==
    rw' = [rw EXCEPT !.docs = Append(@, r.doc),
                     !.calls = Append(@, [write |-> write, err |-> r.err,
                                          panic |-> r.panic])]

\* a call of updatePackageJSON(packageJSONPath, appName)
NameWorkspace ==
    /\ CanCall("name")
    /\ \E write \in WriteOutcomes :
          Called(updatePackageJSON(Current, rw.appName, write), write)
    /\ UNCHANGED <<segs, inject, pc, parsed, next, disk, result, log, ex>>

\* a call of updateRootPackageJSON(packageJSONPath, instructions)
RegisterRootScripts ==
    /\ CanCall("root-scripts")
    /\ \E write \in WriteOutcomes :
          Called(updateRootPackageJSON(Current, rw.instructions, write), write)
    /\ UNCHANGED <<segs, inject, pc, parsed, next, disk, result, log, ex>>

\* a call of updateNxJSONForMonorepo(nxJSONPath, instructions)
RegisterApplications ==
    /\ CanCall("register")
    /\ \E write \in WriteOutcomes :
          Called(updateNxJSONForMonorepo(Current, rw.instructions, write), write)
    /\ UNCHANGED <<segs, inject, pc, parsed, next, disk, result, log, ex>>

\* a call of updateNxJson(workspacePath, appName)
AddReactPlugin ==
    /\ CanCall("react-plugin")
    /\ \E write \in WriteOutcomes :
          Called(updateNxJson(Current, rw.appName, write), write)
    /\ UNCHANGED <<segs, inject, pc, parsed, next, disk, result, log, ex>>

NextConfig ==
    \/ NameWorkspace
    \/ RegisterRootScripts
    \/ RegisterApplications
    \/ AddReactPlugin

SpecConfig == InitConfig /\ [][NextConfig]_vars

(***************************************************************************)
(* Properties of the workspace rewriters, checked under SpecConfig.        *)
(***************************************************************************)
\* the calls of `op` that returned nil: j is the call, rw.docs[j] the
\* document before it and rw.docs[j + 1] the document after it
Succeeded(op) ==
    {j \in 1..Len(rw.calls) :
        rw.op = op /\ rw.calls[j].err = Nil /\ ~rw.calls[j].panic}

\* the script keys updateRootPackageJSON is to set, with their commands
ExpectedScripts(instructions) ==
    {<<verb, S_nx \o <<" ">> \o verb>> :
        verb \in {S_build, S_test, S_lint, S_serve, S_graph}}
        \cup {<<verb \o <<":">> \o instructions[i].AppName,
                S_nx \o <<" ">> \o verb \o <<" ">> \o instructions[i].AppName>> :
                verb \in {S_build, S_serve, S_test, S_lint},
                i \in 1..Len(instructions)}

ScriptKeys(scripts) == {p[1] : p \in scripts}

\* C21: after updateRootPackageJSON with the list L the scripts hold build,
\* test, lint, serve and graph and, for every instruction of L, build:<app>,
\* serve:<app>, test:<app> and lint:<app>, each with its nx command; every
\* other script and every other key of the manifest is as it was
RootScriptsRegistered ==
    \A j \in Succeeded("root-scripts") :
        LET before == rw.docs[j]
            after == rw.docs[j + 1]
            expected == ExpectedScripts(rw.instructions)
        IN  /\ after.state = "ok" /\ after.scriptsKind = "object"
            /\ expected \subseteq after.scripts
            /\ \A p \in after.scripts, q \in after.scripts : p[1] = q[1] => p = q
            /\ \A p \in before.scripts \cup after.scripts :
                   p[1] \notin ScriptKeys(expected) =>
                       p \in before.scripts /\ p \in after.scripts
            /\ after.name = before.name
            /\ after.keys = before.keys
            /\ after.defaultProject = before.defaultProject
            /\ after.plugins = before.plugins

\* a call with two instructions on a manifest that has a script of its own,
\* a build script and a lint:app-1 script the call sets anew
RootScriptsRegisteredWitness ==
    /\ 1 \in Succeeded("root-scripts")
    /\ Len(rw.instructions) = 2
    /\ <<S_start, NxCommand(S_serve)>> \in rw.docs[1].scripts
    /\ <<S_build, S_old>> \in rw.docs[1].scripts
    /\ <<AppKey(S_lint, S_app1), S_old>> \in rw.docs[1].scripts
    /\ <<S_start, NxCommand(S_serve)>> \in rw.docs[2].scripts
    /\ <<AppKey(S_lint, S_app1), S_old>> \notin rw.docs[2].scripts
    /\ Cardinality(rw.docs[2].scripts) = 14

\* a plugins entry, of either form, that names the React plugin
ReferencesReact(plugins) ==
    /\ plugins.kind = "list"
    /\ \E i \in 1..Len(plugins.items) : Contains(plugins.items[i].name, S_react)

\* C22: after updateNxJSONForMonorepo with a non-empty list the default
\* project is the first instruction's app name and the plugins hold an
\* entry that references the React plugin; with an empty list the default
\* project is as it was
ApplicationsRegistered ==
    \A j \in Succeeded("register") :
        LET before == rw.docs[j]
            after == rw.docs[j + 1]
        IN  IF Len(rw.instructions) > 0
            THEN /\ after.defaultProject = StrVal(rw.instructions[1].AppName)
                 /\ ReferencesReact(after.plugins)
            ELSE after.defaultProject = before.defaultProject

\* a call with two instructions on a config whose default project was
\* another and whose plugins named no React plugin
ApplicationsRegisteredWitness ==
    /\ 1 \in Succeeded("register")
    /\ Len(rw.instructions) = 2
    /\ rw.docs[1].defaultProject = StrVal(S_old)
    /\ rw.docs[1].plugins.kind = "list"
    /\ ~ReferencesReact(rw.docs[1].plugins)
    /\ rw.docs[2].defaultProject = StrVal(S_shop)
    /\ ReferencesReact(rw.docs[2].plugins)

\* C24: a call of a rewriter on an absent or unparsable document returns a
\* read error, a call whose write fails returns a write error, and after a
\* call that returned an error the document on disk is as it was before
ErrorLeavesDocumentUnchanged ==
    \A j \in 1..Len(rw.calls) :
        (rw.op \in {"name", "root-scripts", "register", "react-plugin"}
            /\ ~rw.calls[j].panic) =>
            /\ rw.docs[j].state # "ok" => rw.calls[j].err = ReadError(rw.docs[j])
            /\ (rw.docs[j].state = "ok" /\ rw.calls[j].write # "ok") =>
                   rw.calls[j].err # Nil
            /\ rw.calls[j].err # Nil => rw.docs[j + 1] = rw.docs[j]

\* C30: no call of a rewriter on a parsable document panics: each returns
\* nil or an error
RewritersNeverPanic ==
    \A j \in 1..Len(rw.calls) :
        rw.op \in {"name", "root-scripts", "register", "react-plugin"} =>
            ~rw.calls[j].panic

(***************************************************************************)
(* extractZipArchive on its own: an archive of up to MaxEntries entries is *)
(* extracted under the destination, entry by entry, until one fails.       *)
(***************************************************************************)
MaxEntries == 2

\* the destination directory of the extraction
DestPath == <<"work", "ws">>

\* entries: a directory, files below it, a file at the top, a file whose
\* name is the directory's, a name with "..", a name that starts with "/"
ArchiveEntries ==
    {Entry(<<"apps">>, TRUE),
     Entry(<<"apps", "web">>, TRUE),
     Entry(<<"apps", "web", "main.ts">>, FALSE),
     Entry(<<"apps", "index.ts">>, FALSE),
     Entry(<<"README.md">>, FALSE),
     Entry(<<"apps">>, FALSE),
     Entry(<<"..", "evil.txt">>, FALSE),
     Entry(<<"", "etc", "evil.txt">>, FALSE)}

Archives == UNION {[1..n -> ArchiveEntries] : n \in 1..MaxEntries}

\* the destination before the extraction: empty, or with an ordinary file
\* or a directory where the archive has a directory
DestinationsBefore ==
    {[files |-> {}, dirs |-> Prefixes(DestPath)],
     [files |-> {}, dirs |-> Prefixes(DestPath \o <<"apps">>)],
     [files |-> {DestPath \o <<"apps">>}, dirs |-> Prefixes(DestPath)],
     [files |-> {DestPath \o <<"apps", "web">>},
      dirs |-> Prefixes(DestPath \o <<"apps">>)]}

InitExtract ==
    /\ segs = <<>>
    /\ inject = <<>>
    /\ pc = "extract"
    /\ parsed = Unparsed
    /\ next = 0
    /\ disk = EmptyDisk
    /\ result = Nil
    /\ log = <<>>
    /\ rw = NoRewrite
    /\ \E fs \in DestinationsBefore, entries \in Archives :
          ex = [fs |-> fs, entries |-> entries, next |-> 1, err |-> Nil]

\* one round of the loop of extractZipArchive: extractFile(file, destPath)
ExtractFile ==
    /\ pc = "extract"
    /\ ex.err = Nil
    /\ ex.next <= Len(ex.entries)
    /\ LET r == extractFile(ex.fs, DestPath, ex.entries[ex.next])
       IN  ex' = [ex EXCEPT !.fs = r.fs, !.err = r.err, !.next = @ + 1]
    /\ UNCHANGED <<segs, inject, pc, parsed, next, disk, result, log, rw>>

NextExtract == ExtractFile

SpecExtract == InitExtract /\ [][NextExtract]_vars

(***************************************************************************)
(* Properties of the extraction, checked under SpecExtract.                *)
(***************************************************************************)
\* the entry extractFile is about to be called with
AtEntry == pc = "extract" /\ ex.err = Nil /\ ex.next >= 1 /\ ex.next <= Len(ex.entries)

\* the directories an entry needs under the destination: the entry's own
\* path when it is a directory entry, and every directory above its path
NeededDirs(file) ==
    LET path == Join(DestPath, file.Name)
    IN  {q \in Prefixes(IF file.IsDir THEN path ELSE Dir(path)) :
            Len(q) > Len(DestPath) /\ SubSeq(q, 1, Len(DestPath)) = DestPath}

\* C25: whenever an ordinary file is at the path of a directory an entry
\* needs, extractFile removes the file and makes the directory, and the
\* extraction of the entry succeeds
BlockingFileRemoved ==
    AtEntry =>
        LET file == ex.entries[ex.next]
            r == extractFile(ex.fs, DestPath, file)
        IN  (\E q \in NeededDirs(file) : q \in ex.fs.files) =>
                /\ r.err = Nil
                /\ \A q \in NeededDirs(file) : q \in r.fs.dirs /\ q \notin r.fs.files

\* a path is the destination or below it
UnderDestination(path) ==
    Len(path) >= Len(DestPath) /\ SubSeq(path, 1, Len(DestPath)) = DestPath

\* C27: every file and directory the extraction creates is under the
\* destination directory, whatever the names of the entries
ExtractionStaysUnderDestination ==
    pc = "extract" =>
        \A path \in ex.fs.files \cup ex.fs.dirs :
            path \in Prefixes(DestPath) \/ UnderDestination(path)
=============================================================================
